---------------------------- MODULE Spec2Model ----------------------------
(***************************************************************************)
(* MSFConsoleStableWrapper (src/msf/core.py): the initialization           *)
(* sequencer, the retrying command executor with its process runner, the   *)
(* payload generator and cleanup, as coroutines of one asyncio event loop. *)
(* A step of the model is the code a coroutine runs between two awaits     *)
(* that suspend it; several callers interleave at those awaits.            *)
(***************************************************************************)
EXTENDS Integers, Sequences, FiniteSets, TLC

VARIABLES
    session_active,          \* self.session_active
    initialization_status,   \* self.initialization_status
    performance_stats,       \* self.performance_stats
    call                     \* per caller: the coroutine it is running

vars == <<session_active, initialization_status, performance_stats, call>>

(***************************************************************************)
(* Bounds of the model.                                                    *)
(***************************************************************************)
\* concurrent callers of the wrapper
Callers == {"c1", "c2"}
\* executeCommand calls counted before the model stops starting new ones
MaxOps == 2

(***************************************************************************)
(* Text: a string is a sequence of one-character strings.                  *)
(***************************************************************************)
UpperChars == <<"A","B","C","D","E","F","G","H","I","J","K","L","M",
                "N","O","P","Q","R","S","T","U","V","W","X","Y","Z">>
LowerChars == <<"a","b","c","d","e","f","g","h","i","j","k","l","m",
                "n","o","p","q","r","s","t","u","v","w","x","y","z">>
Whitespace == {" ", "\t", "\n"}

\* str.lower() on one character
LowerChar(ch) ==
    IF \E i \in 1..Len(UpperChars) : UpperChars[i] = ch
    THEN LowerChars[CHOOSE i \in 1..Len(UpperChars) : UpperChars[i] = ch]
    ELSE ch

\* str.lower()
Lower(s) == [i \in 1..Len(s) |-> LowerChar(s[i])]

\* sub in s
Contains(s, sub) ==
    \E i \in 0..(Len(s) - Len(sub)) :
        \A j \in 1..Len(sub) : s[i + j] = sub[j]

\* not s.strip(): nothing but whitespace
IsBlank(s) == \A i \in 1..Len(s) : s[i] \in Whitespace

(***************************************************************************)
(* Configuration (_load_stable_config).                                    *)
(***************************************************************************)
MaxRetries == 3
\* retry_delay, in milliseconds
RetryDelay == 2000
\* backoff_multiplier, in tenths
BackoffMultiplier == 15

\* a variant of lines 326-328 whose delay grows by retry_delay each time
DelayLinear(attempt) == RetryDelay * (attempt + 1)

\* lines 326-328: retry_delay * (backoff_multiplier ** attempt), milliseconds
Delay(attempt) ==
    (RetryDelay * BackoffMultiplier ^ attempt) \div (10 ^ attempt)

\* dangerous_commands of _validate_command
DangerousCommands ==
    { <<"r","m"," ","-","r","f">>,
      <<"d","e","l"," ","/">>,
      <<"f","o","r","m","a","t"," ","c",":">>,
      <<"s","h","u","t","d","o","w","n">>,
      <<"r","e","b","o","o","t">>,
      <<"k","i","l","l","a","l","l">> }

\* a variant of _validate_command that compares without lower-casing
ValidateCommandCaseSensitive(command) ==
    IF command = <<>> \/ IsBlank(command) THEN FALSE
    ELSE IF \E dangerous \in DangerousCommands :
                Contains(command, dangerous) THEN FALSE
    ELSE TRUE

\* _validate_command
ValidateCommand(command) ==
    IF command = <<>> \/ IsBlank(command) THEN FALSE
    ELSE IF \E dangerous \in DangerousCommands :
                Contains(Lower(command), dangerous) THEN FALSE
    ELSE TRUE

FatalMarker == <<"f","a","t","a","l">>
CriticalMarker == <<"c","r","i","t","i","c","a","l">>

\* a variant of _validate_result that reads stderr without lower-casing it
ValidateResultCaseSensitive(result) ==
    IF result.returncode # 0
    THEN ~ (Contains(result.stderr, FatalMarker)
            \/ Contains(result.stderr, CriticalMarker))
    ELSE TRUE

\* _validate_result; every result of _execute_with_timeout is a dict
ValidateResult(result) ==
    IF result.returncode # 0
    THEN ~ (Contains(Lower(result.stderr), FatalMarker)
            \/ Contains(Lower(result.stderr), CriticalMarker))
    ELSE TRUE

(***************************************************************************)
(* Inputs: the commands callers send and what a child process answers.     *)
(***************************************************************************)
CmdVersion == <<"v","e","r","s","i","o","n">>
CmdBlank == <<" ", "\t">>
CmdDangerous == <<"d","b",";","S","h","u","t","D","o","w","n">>
Commands == { <<>>, CmdBlank, CmdVersion, CmdDangerous }

SearchPrefix == <<"s","e","a","r","c","h"," ">>
QuerySsh == <<"s","s","h">>
QueryDangerous == <<"K","i","l","l","A","l","l">>
Queries == { QuerySsh, QueryDangerous }

OutOk == <<"o","k">>
ErrWarn == <<"w","a","r","n">>
ErrFatal == <<"F","a","t","a","l",":"," ","d","b">>
ErrCritical == <<"C","R","I","T","I","C","A","L">>

\* what process.communicate() yields of a child that has exited: decoded
\* stdout and stderr, and process.returncode
ProcessResults ==
    { [stdout |-> OutOk, stderr |-> <<>>, returncode |-> 0],
      [stdout |-> <<>>, stderr |-> ErrFatal, returncode |-> 0],
      [stdout |-> OutOk, stderr |-> ErrWarn, returncode |-> 1],
      [stdout |-> <<>>, stderr |-> ErrFatal, returncode |-> 1],
      [stdout |-> OutOk, stderr |-> ErrCritical, returncode |-> 1] }

\* readings of time.time() - start_time: no time at all, or some
Elapsed == {0, 1}

(***************************************************************************)
(* OperationResult and the frame of a call.                                *)
(***************************************************************************)
NoData == [none |-> TRUE]
NoResult == [status |-> "none"]

OperationResult(status, data, execution_time, error) ==
    [status |-> status, data |-> data,
     execution_time |-> execution_time, error |-> error]

\* A caller that is running nothing.  kids: child processes this call has
\* spawned that are still alive; runs: invocations of the process runner;
\* sleeps: backoff sleeps started; trace: how each finished attempt ended
\* (for initialize also: the one check that was logged as not passed);
\* counted: the increments this call has made to performance_stats;
\* judged: the result the current attempt handed to _validate_result and saw
\* refused; delays: the lengths of the backoff sleeps started.
Idle ==
    [op |-> "none", pc |-> "idle", command |-> <<>>, attempt |-> 0,
     kids |-> 0, runs |-> 0, sleeps |-> 0, trace |-> <<>>,
     counted |-> [ops |-> 0, succ |-> 0, fail |-> 0],
     judged |-> NoData, delays |-> <<>>,
     result |-> NoResult]

Init ==
    /\ session_active = FALSE
    /\ initialization_status = "not_started"
    /\ performance_stats =
          [operations_count |-> 0, success_count |-> 0,
           failure_count |-> 0, total_execution_time |-> 0]
    /\ call = [c \in Callers |-> Idle]

\* return <result> from the coroutine of caller c, whose frame is f
Return(f, result) == [f EXCEPT !.pc = "returned", !.result = result]


(***************************************************************************)
(* A step works on the pair m = [f: the caller's frame, stats:             *)
(* performance_stats] and the action stores both back.                     *)
(***************************************************************************)
Cur(c) == [f |-> call[c], stats |-> performance_stats]

Store(c, m) ==
    /\ call' = [call EXCEPT ![c] = m.f]
    /\ performance_stats' = m.stats

\* self.performance_stats["operations_count"] += 1
CountOperation(m) ==
    [f |-> [m.f EXCEPT !.counted.ops = @ + 1],
     stats |-> [m.stats EXCEPT !.operations_count = @ + 1]]

\* self.performance_stats["failure_count"] += 1
CountFailure(m) ==
    [f |-> [m.f EXCEPT !.counted.fail = @ + 1],
     stats |-> [m.stats EXCEPT !.failure_count = @ + 1]]

\* success_count += 1; total_execution_time += execution_time
CountSuccess(m, execution_time) ==
    [f |-> [m.f EXCEPT !.counted.succ = @ + 1],
     stats |-> [m.stats EXCEPT !.success_count = @ + 1,
                               !.total_execution_time = @ + execution_time]]

\* return OperationResult(...) from the coroutine
Returning(m, result) == [m EXCEPT !.f = Return(m.f, result)]

\* search_modules, lines 506-546: run in the step in which its
\* execute_command returns; any other call is left as it is
SearchResult(m) ==
    IF /\ m.f.op = "search_modules" /\ m.f.pc = "returned"
       /\ m.f.result.status = "success"
    THEN [m EXCEPT !.f.result.data =
             [query |-> SubSeq(m.f.command, Len(SearchPrefix) + 1,
                               Len(m.f.command)),
              stdout |-> m.f.result.data.stdout]]
    ELSE m

\* an execute_command step stores its outcome, through search_modules when
\* that is the caller
StoreExecute(c, m) == Store(c, SearchResult(m))

(***************************************************************************)
(* execute_command (lines 278-345).                                        *)
(***************************************************************************)
\* a variant of lines 281-287 that counts the refused call as a failure
NotInitializedCounted(m) ==
    Returning(CountFailure(m),
              OperationResult("failure", NoData, 0,
                              "MSFConsole not initialized"))

\* lines 281-287: the session is not active
NotInitialized(m) ==
    Returning(m, OperationResult("failure", NoData, 0,
                                 "MSFConsole not initialized"))

\* lines 292-299: the command failed _validate_command
ValidationFailed(m, e) ==
    Returning(CountFailure(m),
              OperationResult("failure", NoData, e,
                              "Command validation failed"))

\* lines 300-303: an iteration of the retry loop enters _execute_with_timeout
\* and awaits create_subprocess_exec
StartAttempt(m, attempt) ==
    [m EXCEPT !.f.pc = "spawn", !.f.attempt = attempt, !.f.runs = @ + 1,
              !.f.judged = NoData]

\* lines 304-312: the result passed _validate_result
AttemptSucceeded(m, result, e) ==
    Returning(CountSuccess([m EXCEPT !.f.trace = Append(@, "success")], e),
              OperationResult("success", result, e, "none"))

\* lines 330-336: the loop ended without a return
RetriesExhausted(m, e) ==
    Returning(CountFailure(m),
              OperationResult("failure", NoData, e,
                              "All retry attempts failed"))

\* a variant of the retry loop that runs one iteration more
BackoffOneMore(m, e) ==
    IF m.f.attempt < MaxRetries
    THEN [m EXCEPT !.f.pc = "sleep", !.f.sleeps = @ + 1,
                   !.f.delays = Append(@, Delay(m.f.attempt))]
    ELSE RetriesExhausted(m, e)

\* lines 325-329, and the loop's end: sleep before the next attempt, if any
Backoff(m, e) ==
    IF m.f.attempt < MaxRetries - 1
    THEN [m EXCEPT !.f.pc = "sleep", !.f.sleeps = @ + 1,
                   !.f.delays = Append(@, Delay(m.f.attempt))]
    ELSE RetriesExhausted(m, e)

\* lines 313-314: the result failed _validate_result
AttemptRejected(m, result, e) ==
    Backoff([m EXCEPT !.f.trace = Append(@, "rejected"),
                      !.f.judged = result], e)

\* a variant of lines 315-324 that returns Timeout without counting it
AttemptTimedOutUncounted(m, e) ==
    LET n == [m EXCEPT !.f.trace = Append(@, "timeout")] IN
    IF n.f.attempt = MaxRetries - 1
    THEN Returning(n, OperationResult("timeout", NoData, e,
                                      "Command timed out"))
    ELSE Backoff(n, e)

\* a variant of lines 315-324 without the last attempt's return, so that
\* the loop's end reports the timeout as a failure
AttemptTimedOutFallsThrough(m, e) ==
    Backoff([m EXCEPT !.f.trace = Append(@, "timeout")], e)

\* a variant of lines 315-324 that counts a failure at every timeout
AttemptTimedOutCountsEach(m, e) ==
    LET n == CountFailure([m EXCEPT !.f.trace = Append(@, "timeout")]) IN
    IF n.f.attempt = MaxRetries - 1
    THEN Returning(n, OperationResult("timeout", NoData, e,
                                      "Command timed out"))
    ELSE Backoff(n, e)

\* lines 315-324: _execute_with_timeout raised asyncio.TimeoutError
AttemptTimedOut(m, e) ==
    LET n == [m EXCEPT !.f.trace = Append(@, "timeout")] IN
    IF n.f.attempt = MaxRetries - 1
    THEN Returning(CountFailure(n),
                   OperationResult("timeout", NoData, e,
                                   "Command timed out"))
    ELSE Backoff(n, e)

\* a variant of lines 337-345 that treats the exception as a failed attempt
\* of the retry loop
ExecutionErrorRetried(m, e) ==
    Backoff([m EXCEPT !.f.trace = Append(@, "error")], e)

\* lines 337-345: any other exception of the attempt
ExecutionError(m, e) ==
    Returning(CountFailure([m EXCEPT !.f.trace = Append(@, "error")]),
              OperationResult("failure", NoData, e, "Execution error"))

\* line 382 or 385, then lines 337-345: the child had exited when
\* process.terminate() or process.kill() was called, so the call raised
\* ProcessLookupError, which is not the TimeoutError that line 384 and line
\* 315 catch
ProcessLookupError(m, e) == ExecutionError([m EXCEPT !.f.kids = @ - 1], e)

\* lines 281-303: from the call to its first await
EnterExecuteCommand(m, active, e) ==
    IF ~ active THEN NotInitialized(m)
    ELSE LET n == CountOperation(m) IN
         IF ~ ValidateCommand(n.f.command) THEN ValidationFailed(n, e)
         ELSE StartAttempt(n, 0)

\* a caller calls execute_command(command)
ExecuteCommand(c) ==
    /\ call[c].pc = "idle"
    /\ session_active => performance_stats.operations_count < MaxOps
    /\ \E command \in Commands, e \in Elapsed :
          StoreExecute(c, EnterExecuteCommand(
                      [f |-> [Idle EXCEPT !.op = "execute_command",
                                          !.command = command],
                       stats |-> performance_stats],
                      session_active, e))
    /\ UNCHANGED <<session_active, initialization_status>>

(***************************************************************************)
(* _execute_with_timeout (lines 366-387), inside an attempt.               *)
(***************************************************************************)
\* lines 370-372: the child process is created
ProcessCreated(m) == [m EXCEPT !.f.pc = "communicate", !.f.kids = @ + 1]

\* lines 374-379: communicate() ended in time: the child has exited
ProcessCompleted(m) == [m EXCEPT !.f.kids = @ - 1]

\* lines 380-383: communicate() timed out: terminate(), then wait up to 5 s
Terminate(m) == [m EXCEPT !.f.pc = "grace"]

\* a variant of line 383 that raises without waiting for the child
ExitedInGraceUnreaped(m) == m

\* line 383: the child exited within the grace window, so line 387 raises
ExitedInGrace(m) == [m EXCEPT !.f.kids = @ - 1]

\* lines 384-386: the grace window elapsed: kill(), then wait for the child
Kill(m) == [m EXCEPT !.f.pc = "killwait"]

\* line 386: the killed child is reaped, so line 387 raises
Reaped(m) == [m EXCEPT !.f.kids = @ - 1]

InExecute(c) == call[c].op \in {"execute_command", "search_modules"}

\* create_subprocess_exec returns a process, or raises (OSError)
Spawn(c) ==
    /\ InExecute(c) /\ call[c].pc = "spawn"
    /\ \/ StoreExecute(c, ProcessCreated(Cur(c)))
       \/ \E e \in Elapsed : StoreExecute(c, ExecutionError(Cur(c), e))
    /\ UNCHANGED <<session_active, initialization_status>>

\* a variant of lines 303-312 that skips _validate_result
CommunicateUnchecked(c) ==
    /\ InExecute(c) /\ call[c].pc = "communicate"
    /\ \/ \E result \in ProcessResults, e \in Elapsed :
             StoreExecute(c, AttemptSucceeded(ProcessCompleted(Cur(c)),
                                              result, e))
       \/ StoreExecute(c, Terminate(Cur(c)))
    /\ UNCHANGED <<session_active, initialization_status>>

\* wait_for(process.communicate(), timeout) returns or times out
Communicate(c) ==
    /\ InExecute(c) /\ call[c].pc = "communicate"
    /\ \/ \E result \in ProcessResults, e \in Elapsed :
             LET m == ProcessCompleted(Cur(c)) IN
             IF ValidateResult(result)
             THEN StoreExecute(c, AttemptSucceeded(m, result, e))
             ELSE StoreExecute(c, AttemptRejected(m, result, e))
       \/ StoreExecute(c, Terminate(Cur(c)))
       \/ \E e \in Elapsed : StoreExecute(c, ProcessLookupError(Cur(c), e))
    /\ UNCHANGED <<session_active, initialization_status>>

\* wait_for(process.wait(), 5) returns or times out
GraceWait(c) ==
    /\ InExecute(c) /\ call[c].pc = "grace"
    /\ \/ \E e \in Elapsed :
             StoreExecute(c, AttemptTimedOut(ExitedInGrace(Cur(c)), e))
       \/ StoreExecute(c, Kill(Cur(c)))
       \/ \E e \in Elapsed : StoreExecute(c, ProcessLookupError(Cur(c), e))
    /\ UNCHANGED <<session_active, initialization_status>>

\* process.wait() after kill() returns
KillWait(c) ==
    /\ InExecute(c) /\ call[c].pc = "killwait"
    /\ \E e \in Elapsed : StoreExecute(c, AttemptTimedOut(Reaped(Cur(c)), e))
    /\ UNCHANGED <<session_active, initialization_status>>

\* asyncio.sleep(delay) returns: the loop's next iteration
BackoffDone(c) ==
    /\ InExecute(c) /\ call[c].pc = "sleep"
    /\ StoreExecute(c, StartAttempt(Cur(c), call[c].attempt + 1))
    /\ UNCHANGED <<session_active, initialization_status>>

\* the caller takes the result of its call
Acknowledge(c) ==
    /\ call[c].pc = "returned"
    /\ call' = [call EXCEPT ![c] = Idle]
    /\ UNCHANGED <<session_active, initialization_status, performance_stats>>

(***************************************************************************)
(* search_modules (lines 496-554): execute_command on "search <query>".    *)
(***************************************************************************)
\* a caller calls search_modules(query)
SearchModules(c) ==
    /\ call[c].pc = "idle"
    /\ session_active => performance_stats.operations_count < MaxOps
    /\ \E query \in Queries, e \in Elapsed :
          StoreExecute(c, EnterExecuteCommand(
                      [f |-> [Idle EXCEPT !.op = "search_modules",
                                          !.command = SearchPrefix \o query],
                       stats |-> performance_stats],
                      session_active, e))
    /\ UNCHANGED <<session_active, initialization_status>>

(***************************************************************************)
(* initialize (lines 81-147) and its checks and strategies.                *)
(***************************************************************************)
\* how a subprocess.run probe ends
ProbeOutcomes == {"zero", "nonzero", "expired", "oserror"}

\* _check_msfconsole_binary: which msfconsole
CheckMsfconsoleBinary(which) == which = "zero"

\* _check_system_resources: over 2 GiB available and at least 2 CPUs
CheckSystemResources(adequate) == adequate

\* _check_directories: one of the known directories exists
CheckDirectories(present) == present

\* _check_network_connectivity: ping; an exception counts as reachable
CheckNetworkConnectivity(ping) ==
    IF ping \in {"expired", "oserror"} THEN TRUE ELSE ping = "zero"

\* _pre_initialization_checks
PreInitializationChecks(which, adequate, present, ping) ==
    /\ CheckMsfconsoleBinary(which)
    /\ CheckSystemResources(adequate)
    /\ CheckDirectories(present)
    /\ CheckNetworkConnectivity(ping)

\* what _pre_initialization_checks can do, over the probes' outcomes: its
\* return value, and whether "Network connectivity" is the one check it
\* logged as not passed
PreInitializationOutcomes ==
    { [passed |-> PreInitializationChecks(which, adequate, present, ping),
       network_only |-> /\ CheckMsfconsoleBinary(which)
                        /\ CheckSystemResources(adequate)
                        /\ CheckDirectories(present)
                        /\ ~ CheckNetworkConnectivity(ping)] :
         which \in ProbeOutcomes, adequate \in BOOLEAN,
         present \in BOOLEAN, ping \in ProbeOutcomes }

\* lines 87-94: the checks did not pass
PreInitializationFailed(f, checks, e) ==
    Return([f EXCEPT !.trace =
                IF checks.network_only THEN <<"network">> ELSE <<>>],
           OperationResult("failure", NoData, e,
                           "Pre-initialization checks failed"))

\* _attempt_standard_initialization: --version, then db_status
AttemptStandardInitialization(version, db) ==
    IF version \in {"expired", "oserror"} THEN FALSE
    ELSE IF version = "zero"
         THEN (IF db \in {"expired", "oserror"} THEN FALSE ELSE db = "zero")
         ELSE FALSE

\* _attempt_minimal_initialization: -h prints a usage banner
AttemptMinimalInitialization(help, usage) ==
    IF help \in {"expired", "oserror"} THEN FALSE
    ELSE help = "zero" /\ usage

\* _attempt_offline_initialization: msfvenom --list platforms prints something
AttemptOfflineInitialization(list, nonempty) ==
    IF list \in {"expired", "oserror"} THEN FALSE
    ELSE list = "zero" /\ nonempty

\* initialization_attempts, numbered from 1 as enumerate(..., 1) does
InitializationAttempts ==
    << "_attempt_standard_initialization",
       "_attempt_minimal_initialization",
       "_attempt_offline_initialization" >>

\* init_method() of attempt attempt_num on the probes' outcomes
InitMethod(attempt_num, first, second, flag) ==
    CASE attempt_num = 1 -> AttemptStandardInitialization(first, second)
      [] attempt_num = 2 -> AttemptMinimalInitialization(first, flag)
      [] OTHER -> AttemptOfflineInitialization(first, flag)

\* wait_for(init_method(), timeout): the method's result, or TimeoutError
WaitForInitMethod(attempt_num, first, second, flag, timed_out) ==
    IF timed_out THEN "timeout"
    ELSE IF InitMethod(attempt_num, first, second, flag) THEN "true"
    ELSE "false"

\* how attempt attempt_num can end, over the probes' outcomes
StrategyOutcomes(attempt_num) ==
    { WaitForInitMethod(attempt_num, first, second, flag, timed_out) :
         first \in ProbeOutcomes, second \in ProbeOutcomes,
         flag \in BOOLEAN, timed_out \in BOOLEAN }

\* lines 110-122: the strategy succeeded
InitializationSucceeded(f, e) ==
    Return([f EXCEPT !.trace = Append(@, "succeeded")],
           OperationResult("success",
                 [initialization_method |-> InitializationAttempts[f.attempt],
                  attempt |-> f.attempt],
                 e, "none"))

\* a variant of lines 124-137 that goes from a failed strategy straight to
\* the last one
NextInitializationAttemptSkips(f, e) ==
    LET g == [f EXCEPT !.trace = Append(@, "failed")] IN
    IF g.attempt < Len(InitializationAttempts)
    THEN [g EXCEPT !.attempt = Len(InitializationAttempts), !.runs = @ + 1]
    ELSE Return(g, OperationResult("failure", NoData, e,
                                   "All initialization attempts failed"))

\* lines 124-137: the strategy failed or timed out: the next one, if any
NextInitializationAttempt(f, e) ==
    LET g == [f EXCEPT !.trace = Append(@, "failed")] IN
    IF g.attempt < Len(InitializationAttempts)
    THEN [g EXCEPT !.attempt = @ + 1, !.runs = @ + 1]
    ELSE Return(g, OperationResult("failure", NoData, e,
                                   "All initialization attempts failed"))

\* lines 82-107: from the call to the first wait_for
Initialize(c) ==
    /\ call[c].pc = "idle"
    /\ initialization_status' = "in_progress"
    /\ \E checks \in PreInitializationOutcomes, e \in Elapsed :
          LET f == [Idle EXCEPT !.op = "initialize"] IN
          IF ~ checks.passed
          THEN call' = [call EXCEPT ![c] =
                           PreInitializationFailed(f, checks, e)]
          ELSE call' = [call EXCEPT ![c] =
                  [f EXCEPT !.pc = "strategy", !.attempt = 1, !.runs = 1]]
    /\ UNCHANGED <<session_active, performance_stats>>

\* lines 105-137: wait_for(init_method(), timeout) returns or times out
Strategy(c) ==
    /\ call[c].op = "initialize" /\ call[c].pc = "strategy"
    /\ \E outcome \in StrategyOutcomes(call[c].attempt), e \in Elapsed :
          LET f == call[c]
              g == NextInitializationAttempt(f, e) IN
          IF outcome = "true"
          THEN /\ initialization_status' = "completed"
               /\ session_active' = TRUE
               /\ call' = [call EXCEPT ![c] = InitializationSucceeded(f, e)]
          ELSE /\ initialization_status' =
                     IF g.pc = "returned" THEN "failed"
                     ELSE initialization_status
               /\ session_active' = session_active
               /\ call' = [call EXCEPT ![c] = g]
    /\ UNCHANGED performance_stats

(***************************************************************************)
(* cleanup (lines 717-729): no await, so one step.                         *)
(***************************************************************************)
\* a variant of cleanup that puts the status back to its first value
CleanupToNotStarted(c) ==
    /\ call[c].pc = "idle"
    /\ session_active' = FALSE
    /\ initialization_status' = "not_started"
    /\ UNCHANGED <<performance_stats, call>>

\* a variant of cleanup that also clears performance_stats
CleanupClearsStats(c) ==
    /\ call[c].pc = "idle"
    /\ session_active' = FALSE
    /\ initialization_status' = "cleanup"
    /\ performance_stats' =
          [operations_count |-> 0, success_count |-> 0,
           failure_count |-> 0, total_execution_time |-> 0]
    /\ UNCHANGED call

Cleanup(c) ==
    /\ call[c].pc = "idle"
    /\ session_active' = FALSE
    /\ initialization_status' = "cleanup"
    /\ UNCHANGED <<performance_stats, call>>

(***************************************************************************)
(* get_status (lines 668-715): a synchronous read.                         *)
(***************************************************************************)
\* _calculate_stability_rating; success_rate >= 0.95 is 100 * successes >=
\* 95 * operations, and int(success_rate * 10) is (10 * successes) \div
\* operations
StabilityRating ==
    LET ops == performance_stats.operations_count
        succ == performance_stats.success_count IN
    IF ops = 0
    THEN (IF initialization_status = "completed" THEN 10 ELSE 5)
    ELSE IF 100 * succ >= 95 * ops THEN 10
    ELSE IF 100 * succ >= 90 * ops THEN 9
    ELSE IF 100 * succ >= 80 * ops THEN 8
    ELSE IF 100 * succ >= 70 * ops THEN 7
    ELSE IF 100 * succ >= 60 * ops THEN 6
    ELSE IF 100 * succ >= 50 * ops THEN 5
    ELSE IF (10 * succ) \div ops > 1 THEN (10 * succ) \div ops
    ELSE 1

\* the dict get_status returns (system_resources left out)
StatusReport ==
    [initialization_status |-> initialization_status,
     session_active |-> session_active,
     performance_stats |-> performance_stats,
     stability_rating |-> StabilityRating]

\* get_status changes nothing; its dict is read and dropped at once
GetStatus(c) ==
    /\ call[c].pc = "idle"
    /\ StatusReport.session_active = session_active
    /\ UNCHANGED vars

(***************************************************************************)
(* generate_payload (lines 389-444): msfvenom, three attempts.             *)
(***************************************************************************)
PayloadAttempts == 3

\* lines 412-422: msfvenom exited with 0 and wrote a payload
PayloadGenerated(f, result, e) ==
    Return(f, OperationResult("success",
                 [payload_data |-> result.stdout,
                  size_bytes |-> Len(result.stdout)],
                 e, "none"))

\* lines 423-436: the attempt failed or timed out: sleep 2 s and try again,
\* or give up after the last one
PayloadRetry(f, e) ==
    IF f.attempt < PayloadAttempts - 1
    THEN [f EXCEPT !.pc = "sleep", !.sleeps = @ + 1]
    ELSE Return(f, OperationResult("failure", NoData, e,
                     "Payload generation failed after 3 attempts"))

\* lines 427-430: communicate() timed out; the handler logs and retries,
\* the child is left as it is
PayloadTimedOut(f, e) == PayloadRetry(f, e)

\* lines 396-410: from the call to create_subprocess_exec
GeneratePayload(c) ==
    /\ call[c].pc = "idle"
    /\ call' = [call EXCEPT ![c] =
          [Idle EXCEPT !.op = "generate_payload", !.pc = "spawn",
                       !.runs = 1]]
    /\ UNCHANGED <<session_active, initialization_status, performance_stats>>

\* create_subprocess_exec returns a process, or raises (lines 437-444)
PayloadSpawn(c) ==
    /\ call[c].op = "generate_payload" /\ call[c].pc = "spawn"
    /\ \/ call' = [call EXCEPT ![c].pc = "communicate", ![c].kids = @ + 1]
       \/ \E e \in Elapsed :
             call' = [call EXCEPT ![c] =
                Return(@, OperationResult("failure", NoData, e,
                                          "Generation error"))]
    /\ UNCHANGED <<session_active, initialization_status, performance_stats>>

\* wait_for(process.communicate(), timeout) returns or times out
PayloadCommunicate(c) ==
    /\ call[c].op = "generate_payload" /\ call[c].pc = "communicate"
    /\ \E e \in Elapsed :
          \/ \E result \in ProcessResults :
                LET f == [call[c] EXCEPT !.kids = @ - 1] IN
                call' = [call EXCEPT ![c] =
                   IF result.returncode = 0 /\ result.stdout # <<>>
                   THEN PayloadGenerated(f, result, e)
                   ELSE PayloadRetry(f, e)]
          \/ call' = [call EXCEPT ![c] = PayloadTimedOut(@, e)]
    /\ UNCHANGED <<session_active, initialization_status, performance_stats>>

\* asyncio.sleep(2) returns: the loop's next iteration
PayloadSleepDone(c) ==
    /\ call[c].op = "generate_payload" /\ call[c].pc = "sleep"
    /\ call' = [call EXCEPT ![c].pc = "spawn", ![c].attempt = @ + 1,
                            ![c].runs = @ + 1]
    /\ UNCHANGED <<session_active, initialization_status, performance_stats>>

\* a child that generate_payload left running exits by itself
AbandonedChildExits(c) ==
    /\ call[c].op = "generate_payload"
    /\ call[c].kids > (IF call[c].pc = "communicate" THEN 1 ELSE 0)
    /\ call' = [call EXCEPT ![c].kids = @ - 1]
    /\ UNCHANGED <<session_active, initialization_status, performance_stats>>

(***************************************************************************)
(* The wrapper under concurrent callers.                                   *)
(***************************************************************************)
\* the steps that resume a suspended execute_command or initialize of c
Resume(c) ==
    \/ Spawn(c)
    \/ Communicate(c)
    \/ GraceWait(c)
    \/ KillWait(c)
    \/ BackoffDone(c)
    \/ Strategy(c)

\* the steps that resume a suspended generate_payload of c
ResumePayload(c) ==
    \/ PayloadSpawn(c)
    \/ PayloadCommunicate(c)
    \/ PayloadSleepDone(c)

\* The operations on the shared session state, under concurrent callers.
\* generate_payload reads and writes none of session_active,
\* initialization_status and performance_stats, so its interleavings with
\* the others add nothing: SoloSpec has it.
Next ==
    \E c \in Callers :
        \/ Initialize(c)
        \/ ExecuteCommand(c)
        \/ SearchModules(c)
        \/ GetStatus(c)
        \/ Cleanup(c)
        \/ Resume(c)
        \/ Acknowledge(c)

Spec == Init /\ [][Next]_vars

\* Every operation, called by one caller, one call after the other.
SoloCaller == "c1"

SoloNext ==
    \/ Initialize(SoloCaller)
    \/ ExecuteCommand(SoloCaller)
    \/ SearchModules(SoloCaller)
    \/ GeneratePayload(SoloCaller)
    \/ GetStatus(SoloCaller)
    \/ Cleanup(SoloCaller)
    \/ Resume(SoloCaller)
    \/ ResumePayload(SoloCaller)
    \/ AbandonedChildExits(SoloCaller)
    \/ Acknowledge(SoloCaller)

SoloSpec == Init /\ [][SoloNext]_vars

\* The event loop resumes every coroutine whose await has completed, and a
\* child process either exits or is killed at its timeout.
Fairness == \A c \in Callers : WF_vars(Resume(c))

FairSpec == Spec /\ Fairness

\* No step of a call waits for another caller, so whether a call returns is
\* decided by its own steps: the one caller, resumed whenever it can be.
FairSoloSpec == SoloSpec /\ WF_vars(Resume(SoloCaller))

(***************************************************************************)
(* _estimate_response_tokens and _apply_smart_result_limiting (lines       *)
(* 476-494, 556-571): the token budget of a list of module records.        *)
(***************************************************************************)
\* the longest list of modules given, the largest limit given, and the
\* number of passes of the loop body that are followed
MaxModules == 4
MaxLimit == 5
MaxIterations == 6

\* target_tokens: int = 20000
DefaultTargetTokens == 20000

Min(a, b) == IF a <= b THEN a ELSE b
Max(a, b) == IF a >= b THEN a ELSE b

\* seq[start:end] as Python slices a list: a negative index counts from the
\* end, and both are clipped to the list
SliceIndex(seq, i) == IF i < 0 THEN Max(Len(seq) + i, 0) ELSE Min(i, Len(seq))

Slice(seq, start, end) ==
    SubSeq(seq, SliceIndex(seq, start) + 1, SliceIndex(seq, end))

\* module.get(key, "")
Get(module, key) == IF key \in DOMAIN module THEN module[key] ELSE <<>>

\* a variant of lines 562-567 that counts 90 characters of overhead for a
\* module
ModuleCharsNinety(module) ==
    (Len(Get(module, "name")) + 20) + (Len(Get(module, "description")) + 20)
       + Len(Get(module, "type")) + 50

\* lines 562-567: the characters counted for one module
ModuleChars(module) ==
    (Len(Get(module, "name")) + 20) + (Len(Get(module, "description")) + 20)
       + (Len(Get(module, "type")) + 20) + 50

RECURSIVE TotalChars(_)
TotalChars(modules) ==
    IF modules = <<>> THEN 0
    ELSE ModuleChars(Head(modules)) + TotalChars(Tail(modules))

\* _estimate_response_tokens
EstimateResponseTokens(modules) ==
    IF modules = <<>> THEN 500
    ELSE (TotalChars(modules) + 1000 + 800) \div 3

\* module records: a short one, one with a longer description and one
\* without a description
ModuleA == [name |-> <<"a">>, description |-> <<"d">>, type |-> <<"t">>]
ModuleB == [name |-> <<"b">>,
            description |-> <<"d","d","d","d","d","d","d">>,
            type |-> <<"t">>]
ModuleC == [name |-> <<"c">>, type |-> <<>>]
ModulePool == {ModuleA, ModuleB, ModuleC}

ModuleLists == UNION { [1..n -> ModulePool] : n \in 0..MaxModules }

Limits == 1..MaxLimit

\* budgets below one record, of one, two and three records, and the default
TargetTokens == {600, 640, 680, 720, DefaultTargetTokens}

\* line 487: max(1, int(current_limit * 0.8)); for an int n >= 0,
\* int(n * 0.8) is floor(8 n / 10)
Shrink(current_limit) == Max(1, (current_limit * 8) \div 10)

\* a variant of line 488 that returns the modules up to the requested limit
FinalModulesUnshrunk(modules, limit, current_limit) == Slice(modules, 0, limit)

\* line 488: final_modules = modules[:current_limit]
FinalModules(modules, limit, current_limit) == Slice(modules, 0, current_limit)

\* lines 488-494: the loop is left
LimitingDone(f) ==
    Return(f, [modules |-> FinalModules(f.modules, f.limit, f.current_limit),
               was_limited |-> f.current_limit < f.limit])

\* lines 482-487: the loop's test and one pass of its body
LimitingIteration(f) ==
    IF f.current_limit > 0
    THEN LET g == [f EXCEPT !.iterations = @ + 1] IN
         IF EstimateResponseTokens(Slice(f.modules, 0, f.current_limit))
               <= f.target_tokens
         THEN LimitingDone(g)
         ELSE [g EXCEPT !.current_limit = Shrink(@)]
    ELSE LimitingDone(f)

\* lines 479-481: from the call to the loop
EnterLimiting(modules, limit, target_tokens) ==
    LET f == [op |-> "_apply_smart_result_limiting", pc |-> "loop",
              modules |-> modules, limit |-> limit,
              target_tokens |-> target_tokens,
              current_limit |-> 0, iterations |-> 0, result |-> NoResult] IN
    IF modules = <<>>
    THEN Return(f, [modules |-> modules, was_limited |-> FALSE])
    ELSE [f EXCEPT !.current_limit = Min(limit, Len(modules))]

\* the whole call, for a caller that takes its result
RECURSIVE LimitingFrom(_)
LimitingFrom(f) ==
    IF f.pc = "returned" THEN f.result ELSE LimitingFrom(LimitingIteration(f))

ApplySmartResultLimitingResult(modules, limit, target_tokens) ==
    LimitingFrom(EnterLimiting(modules, limit, target_tokens))

\* a caller calls _apply_smart_result_limiting(modules, limit, target_tokens)
ApplySmartResultLimiting(c) ==
    /\ call[c].pc = "idle"
    /\ \E modules \in ModuleLists, limit \in Limits,
          target_tokens \in TargetTokens :
          call' = [call EXCEPT ![c] =
                      EnterLimiting(modules, limit, target_tokens)]
    /\ UNCHANGED <<session_active, initialization_status, performance_stats>>

\* the while loop goes round once; passes beyond MaxIterations are not
\* followed
LimitingLoop(c) ==
    /\ call[c].op = "_apply_smart_result_limiting" /\ call[c].pc = "loop"
    /\ call[c].iterations < MaxIterations
    /\ call' = [call EXCEPT ![c] = LimitingIteration(call[c])]
    /\ UNCHANGED <<session_active, initialization_status, performance_stats>>

\* a caller calls _estimate_response_tokens(modules)
EstimateResponseTokensCall(c) ==
    /\ call[c].pc = "idle"
    /\ \E modules \in ModuleLists :
          call' = [call EXCEPT ![c] =
             Return([op |-> "_estimate_response_tokens", pc |-> "called",
                     modules |-> modules, result |-> NoResult],
                    EstimateResponseTokens(modules))]
    /\ UNCHANGED <<session_active, initialization_status, performance_stats>>

EstimateNext ==
    \/ EstimateResponseTokensCall(SoloCaller)
    \/ Acknowledge(SoloCaller)

EstimateSpec == Init /\ [][EstimateNext]_vars

(***************************************************************************)
(* RateLimiter (src/msf/policy.py lines 19-33).  time.time() is read once  *)
(* per allow(); the readings are whole seconds here, counted from the      *)
(* construction of the limiter, and never go back.                         *)
(***************************************************************************)
\* the largest max_calls and window_secs a limiter is constructed with, the
\* last reading of the clock, and the longest time between two readings
MaxCalls == 2
MaxWindow == 2
MaxClock == 6
MaxTick == 3

\* a variant of lines 28-29 that also drops a call made exactly window_secs ago
RECURSIVE PopOldInclusive(_, _, _)
PopOldInclusive(calls, now, window_secs) ==
    IF calls # <<>> /\ now - Head(calls) >= window_secs
    THEN PopOldInclusive(Tail(calls), now, window_secs)
    ELSE calls

\* lines 28-29: while self.calls and now - self.calls[0] > self.window_secs
RECURSIVE PopOld(_, _, _)
PopOld(calls, now, window_secs) ==
    IF calls # <<>> /\ now - Head(calls) > window_secs
    THEN PopOld(Tail(calls), now, window_secs)
    ELSE calls

\* allow() at the reading <now> of the clock (lines 25-33); admitted is the
\* history of the readings at which allow() returned True, refused tells
\* that it has returned False
Allow(f, now) ==
    LET calls == PopOld(f.calls, now, f.window_secs) IN
    IF Len(calls) >= f.max_calls
    THEN [f EXCEPT !.calls = calls, !.clock = now, !.result = FALSE,
                   !.refused = TRUE]
    ELSE [f EXCEPT !.calls = Append(calls, now), !.clock = now,
                   !.result = TRUE, !.admitted = Append(@, now)]

\* RateLimiter(max_calls, window_secs), lines 20-23
RateLimiterNew(c) ==
    /\ call[c].pc = "idle"
    /\ \E max_calls \in 1..MaxCalls, window_secs \in 1..MaxWindow :
          call' = [call EXCEPT ![c] =
             [op |-> "RateLimiter", pc |-> "constructed",
              max_calls |-> max_calls, window_secs |-> window_secs,
              calls |-> <<>>, clock |-> 0, admitted |-> <<>>,
              refused |-> FALSE, result |-> FALSE]]
    /\ UNCHANGED <<session_active, initialization_status, performance_stats>>

\* a call of allow(), <tick> seconds after the last reading of the clock
AllowCall(c) ==
    /\ call[c].op = "RateLimiter"
    /\ \E tick \in 0..MaxTick :
          /\ call[c].clock + tick <= MaxClock
          /\ call' = [call EXCEPT ![c] = Allow(call[c], call[c].clock + tick)]
    /\ UNCHANGED <<session_active, initialization_status, performance_stats>>

RateNext ==
    \/ RateLimiterNew(SoloCaller)
    \/ AllowCall(SoloCaller)

RateSpec == Init /\ [][RateNext]_vars

LimitNext ==
    \/ ApplySmartResultLimiting(SoloCaller)
    \/ LimitingLoop(SoloCaller)
    \/ Acknowledge(SoloCaller)

LimitSpec == Init /\ [][LimitNext]_vars

(***************************************************************************)
(* search_modules from line 506 on (lines 498-532): the page of the parsed *)
(* modules that a successful search returns.                               *)
(***************************************************************************)
\* the largest full result set given and the largest page number asked for
MaxCount == 5
MaxPage == 6

\* lines 499-500: limit = 50 when it is over 50
MaxPageSize == 50

\* the i-th module of a search: its name is i characters long
NumberedModule(i) ==
    [name |-> [j \in 1..i |-> "m"], description |-> <<>>, type |-> <<"t">>]

\* what _parse_search_output_full can return: n different modules
ResultSets == { [i \in 1..n |-> NumberedModule(i)] : n \in 0..MaxCount }

\* the limits given: none, small ones, and one over 50
PageSizes == {0, 1, 2, 3, MaxPageSize + 1}

PageNumbers == (0 - 1)..MaxPage

\* lines 499-500
ClampLimit(limit) == IF limit > MaxPageSize THEN MaxPageSize ELSE limit

\* lines 509-511: paginated_modules = all_modules[start_idx:end_idx]
PaginatedModules(all_modules, limit, page) ==
    LET start_idx == (page - 1) * limit
        end_idx == start_idx + limit IN
    Slice(all_modules, start_idx, end_idx)

\* a variant of line 515 that rounds down
TotalPagesFloor(total_count, limit) == total_count \div limit

\* line 515: total_pages = (total_count + limit - 1) // limit
TotalPages(total_count, limit) == (total_count + limit - 1) \div limit

\* lines 498-554 after execute_command has returned Success and its stdout
\* has been parsed to all_modules; limit = 0 divides by zero at line 515
\* and the handler of lines 547-554 returns Failure
SearchModulesPage(f, all_modules, limit_given, page, e) ==
    LET limit == ClampLimit(limit_given)
        total_count == Len(all_modules)
        paginated_modules == PaginatedModules(all_modules, limit, page)
        limited == ApplySmartResultLimitingResult(
                      paginated_modules, Len(paginated_modules),
                      DefaultTargetTokens)
        g == [f EXCEPT !.all_modules = all_modules, !.limit = limit_given,
                       !.page = page,
                       !.paginated_modules = paginated_modules] IN
    IF limit = 0
    THEN Return(g, OperationResult("failure", NoData, e, "Search error"))
    ELSE LET total_pages == TotalPages(total_count, limit) IN
         Return(g, OperationResult("success",
            [modules |-> limited.modules,
             pagination |->
                [current_page |-> page,
                 total_pages |-> total_pages,
                 page_size |-> limit,
                 total_count |-> total_count,
                 has_next |-> page < total_pages,
                 has_previous |-> page > 1,
                 token_limit_applied |-> limited.was_limited,
                 final_result_count |-> Len(limited.modules),
                 estimated_tokens |->
                    EstimateResponseTokens(limited.modules)]],
            e, "none"))

\* a caller's search_modules(query, limit, page) gets to line 506 with
\* all_modules parsed
SearchPage(c) ==
    /\ call[c].pc = "idle"
    /\ \E all_modules \in ResultSets, limit \in PageSizes,
          page \in PageNumbers, e \in Elapsed :
          call' = [call EXCEPT ![c] =
             SearchModulesPage(
                [op |-> "search_modules", pc |-> "parsed",
                 all_modules |-> <<>>, limit |-> 0, page |-> 0,
                 paginated_modules |-> <<>>, result |-> NoResult],
                all_modules, limit, page, e)]
    /\ UNCHANGED <<session_active, initialization_status, performance_stats>>

PageNext ==
    \/ SearchPage(SoloCaller)
    \/ Acknowledge(SoloCaller)

PageSpec == Init /\ [][PageNext]_vars

(***************************************************************************)
(* Regular expressions as the re module matches them: a pattern is a tree  *)
(* of nodes, and Ends gives every position at which a match of the node    *)
(* that starts at position i (characters before it) can end.               *)
(***************************************************************************)
Digits == {"0","1","2","3","4","5","6","7","8","9"}
Letters == {UpperChars[i] : i \in 1..Len(UpperChars)}
              \cup {LowerChars[i] : i \in 1..Len(LowerChars)}
\* \s, \w and \d on the characters that are given here
SpaceChars == {" ", "\t", "\n", "\r", "\f"}
WordChars == Letters \cup Digits \cup {"_"}

Node(t, neg, set, sub) == [t |-> t, neg |-> neg, set |-> set, sub |-> sub]

\* [...], [^...], ".", "^", "$", r*, and the concatenation of nodes
Chr(set) == Node("chr", FALSE, set, <<>>)
NotChr(set) == Node("chr", TRUE, set, <<>>)
AnyChar == NotChr({"\n"})
Bol == Node("bol", FALSE, {}, <<>>)
Eol == Node("eol", FALSE, {}, <<>>)
Star(r) == Node("star", FALSE, {}, <<r>>)
Cat(rs) == Node("cat", FALSE, {}, rs)
\* r1|r2|...
Alt(rs) == Node("alt", FALSE, {}, rs)

\* a literal string, r+, and r{n,}
Str(chars) == Cat([i \in 1..Len(chars) |-> Chr({chars[i]})])
Plus(r) == Cat(<<r, Star(r)>>)
AtLeast(n, r) == Cat([i \in 1..n |-> r] \o <<Star(r)>>)

\* the flags of a search: re.IGNORECASE and re.MULTILINE
Flags(ic, ml) == [ic |-> ic, ml |-> ml]

\* whether the class of a node takes the character ch
CharMatches(ch, node, ic) ==
    LET taken == IF ic
                 THEN \E x \in node.set : LowerChar(x) = LowerChar(ch)
                 ELSE ch \in node.set IN
    taken # node.neg

RECURSIVE Ends(_, _, _, _)
RECURSIVE EndsOfCat(_, _, _, _, _)
RECURSIVE EndsOfStar(_, _, _, _, _)

Ends(re, s, i, fl) ==
    CASE re.t = "chr" ->
            IF i < Len(s) /\ CharMatches(s[i + 1], re, fl.ic)
            THEN {i + 1} ELSE {}
      [] re.t = "bol" ->
            IF i = 0 \/ (fl.ml /\ s[i] = "\n") THEN {i} ELSE {}
      [] re.t = "eol" ->
            IF i = Len(s) \/ (s[i + 1] = "\n" /\ (fl.ml \/ i + 1 = Len(s)))
            THEN {i} ELSE {}
      [] re.t = "cat" -> EndsOfCat(re.sub, 1, s, {i}, fl)
      [] re.t = "alt" ->
            UNION {Ends(re.sub[k], s, i, fl) : k \in 1..Len(re.sub)}
      [] OTHER -> EndsOfStar(re.sub[1], s, {i}, {i}, fl)

\* the nodes subs[k..] one after the other, started at any of from
EndsOfCat(subs, k, s, from, fl) ==
    IF k > Len(subs) \/ from = {} THEN from
    ELSE EndsOfCat(subs, k + 1, s,
                   UNION {Ends(subs[k], s, p, fl) : p \in from}, fl)

\* r any number of times: the positions reached, frontier the new ones
EndsOfStar(r, s, reached, frontier, fl) ==
    LET next == UNION {Ends(r, s, p, fl) : p \in frontier} \ reached IN
    IF next = {} THEN reached
    ELSE EndsOfStar(r, s, reached \cup next, next, fl)

\* re.search(pattern, s, flags) finds a match; re.match(pattern, s) does
Search(re, s, fl) == \E i \in 0..Len(s) : Ends(re, s, i, fl) # {}
Match(re, s, fl) == Ends(re, s, 0, fl) # {}

\* str.split("\n")
RECURSIVE SplitLines(_)
SplitLines(s) ==
    IF \A i \in 1..Len(s) : s[i] # "\n" THEN <<s>>
    ELSE LET n == CHOOSE i \in 1..Len(s) :
                     s[i] = "\n" /\ \A j \in 1..(i - 1) : s[j] # "\n" IN
         <<SubSeq(s, 1, n - 1)>> \o SplitLines(SubSeq(s, n + 1, Len(s)))

\* str.strip()
Strip(s) ==
    IF \A i \in 1..Len(s) : s[i] \in SpaceChars THEN <<>>
    ELSE LET first == CHOOSE i \in 1..Len(s) :
                         s[i] \notin SpaceChars
                         /\ \A j \in 1..(i - 1) : s[j] \in SpaceChars
             last == CHOOSE i \in 1..Len(s) :
                         s[i] \notin SpaceChars
                         /\ \A j \in (i + 1)..Len(s) : s[j] \in SpaceChars IN
         SubSeq(s, first, last)

\* len(s.split()): the runs of characters that are not whitespace
WordCount(s) ==
    Cardinality({i \in 1..Len(s) :
                    s[i] \notin SpaceChars
                    /\ (i = 1 \/ s[i - 1] \in SpaceChars)})

(***************************************************************************)
(* MSFParser.detect_output_type (src/msf_parser.py, lines 42-94).          *)
(***************************************************************************)
\* \s, \d, \w and \n
Space == Chr(SpaceChars)
Digit == Chr(Digits)
WordChar == Chr(WordChars)
Newline == Chr({"\n"})

\* self.patterns, lines 43-70, each pattern under its source text
Patterns ==
    [error |->
        << \* \[-\]\s*Unknown command
           Cat(<<Str(<<"[","-","]">>), Star(Space),
                 Str(<<"U","n","k","n","o","w","n"," ","c","o","m","m","a","n","d">>)>>),
           \* \[-\]\s*.*error.*
           Cat(<<Str(<<"[","-","]">>), Star(Space), Star(AnyChar),
                 Str(<<"e","r","r","o","r">>), Star(AnyChar)>>),
           \* \[-\]\s*.*failed.*
           Cat(<<Str(<<"[","-","]">>), Star(Space), Star(AnyChar),
                 Str(<<"f","a","i","l","e","d">>), Star(AnyChar)>>),
           \* Error:
           Cat(<<Str(<<"E","r","r","o","r",":">>)>>),
           \* not found
           Cat(<<Str(<<"n","o","t"," ","f","o","u","n","d">>)>>) >>,
     table |->
        << \* ^.*\n.*[=]{3,}.*\n
           Cat(<<Bol, Star(AnyChar), Newline, Star(AnyChar),
                 AtLeast(3, Chr({"="})), Star(AnyChar), Newline>>),
           \* ^\s*#\s+Name\s+.*\n
           Cat(<<Bol, Star(Space), Chr({"#"}), Plus(Space),
                 Str(<<"N","a","m","e">>), Plus(Space), Star(AnyChar),
                 Newline>>),
           \* ^\s*Id\s+Name\s*\n
           Cat(<<Bol, Star(Space), Str(<<"I","d">>), Plus(Space),
                 Str(<<"N","a","m","e">>), Star(Space), Newline>>),
           \* ^\s*Name\s+Current Setting.*\n
           Cat(<<Bol, Star(Space), Str(<<"N","a","m","e">>), Plus(Space),
                 Str(<<"C","u","r","r","e","n","t"," ","S","e","t","t","i","n","g">>),
                 Star(AnyChar), Newline>>) >>,
     version_info |->
        << \* Framework:\s*\d+\.\d+
           Cat(<<Str(<<"F","r","a","m","e","w","o","r","k",":">>),
                 Star(Space), Plus(Digit), Chr({"."}), Plus(Digit)>>),
           \* Console\s*:\s*\d+\.\d+
           Cat(<<Str(<<"C","o","n","s","o","l","e">>), Star(Space),
                 Chr({":"}), Star(Space), Plus(Digit), Chr({"."}),
                 Plus(Digit)>>) >>,
     workspace_list |->
        << \* Workspaces\s*\n[=]{3,}
           Cat(<<Str(<<"W","o","r","k","s","p","a","c","e","s">>),
                 Star(Space), Newline, AtLeast(3, Chr({"="}))>>),
           \* \*\s+\w+
           Cat(<<Chr({"*"}), Plus(Space), Plus(WordChar)>>) >>,
     info_block |->
        << \* ^\s*Name:\s*.*\n
           Cat(<<Bol, Star(Space), Str(<<"N","a","m","e",":">>), Star(Space),
                 Star(AnyChar), Newline>>),
           \* ^\s+Module:\s*.*\n
           Cat(<<Bol, Plus(Space), Str(<<"M","o","d","u","l","e",":">>),
                 Star(Space), Star(AnyChar), Newline>>),
           \* Basic options:\s*\n
           Cat(<<Str(<<"B","a","s","i","c"," ","o","p","t","i","o","n","s",":">>),
                 Star(Space), Newline>>) >>]

\* line 92: r"^[\s\-_=]{3,}$"
SeparatorLine ==
    Cat(<<Bol, AtLeast(3, Chr(SpaceChars \cup {"-", "_", "="})), Eol>>)

\* the groups in the order detect_output_type goes through them, each with
\* the flags of its re.search and the OutputType it stands for
PatternGroups ==
    << [patterns |-> Patterns.error, flags |-> Flags(TRUE, TRUE),
        type |-> "error"],
       [patterns |-> Patterns.version_info, flags |-> Flags(TRUE, FALSE),
        type |-> "version_info"],
       [patterns |-> Patterns.workspace_list, flags |-> Flags(TRUE, TRUE),
        type |-> "list"],
       [patterns |-> Patterns.info_block, flags |-> Flags(FALSE, TRUE),
        type |-> "info_block"],
       [patterns |-> Patterns.table, flags |-> Flags(FALSE, TRUE),
        type |-> "table"] >>

\* for pattern in self.patterns[...]: if re.search(pattern, output, flags)
GroupMatches(group, output) ==
    \E k \in 1..Len(group.patterns) :
        Search(group.patterns[k], output, group.flags)

\* lines 88-93: a line of two or more words followed by a separator line
HeaderAndSeparator(output) ==
    LET lines == SplitLines(output) IN
    \E i \in 1..(Len(lines) - 1) :
        LET header_line == Strip(lines[i])
            sep_line == lines[i + 1] IN
        /\ header_line # <<>>
        /\ WordCount(header_line) >= 2
        /\ Match(SeparatorLine, sep_line, Flags(FALSE, FALSE))

\* the loops of lines 73-87 over the groups order[k..], then lines 88-94
RECURSIVE DetectFrom(_, _, _)
DetectFrom(order, k, output) ==
    IF k > Len(order)
    THEN (IF HeaderAndSeparator(output) THEN "table" ELSE "raw")
    ELSE IF GroupMatches(PatternGroups[order[k]], output)
         THEN PatternGroups[order[k]].type
         ELSE DetectFrom(order, k + 1, output)

\* a variant that goes through the groups in the order of self.patterns:
\* error, table, version_info, workspace_list, info_block
DetectOutputTypeInDictOrder(output) == DetectFrom(<<1, 5, 2, 3, 4>>, 1, output)

\* detect_output_type
DetectOutputType(output) == DetectFrom(<<1, 2, 3, 4, 5>>, 1, output)

\* console output: pieces that each show one shape; first one of every shape
FragNotFound ==
    [type |-> "error",
     text |-> <<"x"," ","N","o","t"," ","F","o","u","n","d">>]
FragFramework ==
    [type |-> "version_info",
     text |-> <<"f","r","a","m","e","w","o","r","k",":"," ","6",".","3">>]
FragStarItem ==
    [type |-> "list",
     text |-> <<"*"," ","d","e","f","a","u","l","t">>]
FragNameLine ==
    [type |-> "info_block",
     text |-> <<"N","a","m","e",":"," ","x","\n">>]
FragIdHeader ==
    [type |-> "table",
     text |-> <<"I","d"," ","N","a","m","e","\n">>]
FragPlain ==
    [type |-> "raw",
     text |-> <<"h","e","l","l","o">>]

\* the pieces given: those, and one more for every other pattern and for
\* the test of lines 88-93
Fragments ==
    { FragNotFound, FragFramework, FragStarItem,
      FragNameLine, FragIdHeader, FragPlain,
      [type |-> "error",
       text |-> <<"[","-","]"," ","u","n","k","n","o","w","n"," ","C","O","M",
               "M","A","N","D">>],
      [type |-> "error",
       text |-> <<"[","-","]"," ","x"," ","E","r","r","o","r"," ","y">>],
      [type |-> "error",
       text |-> <<"[","-","]","F","A","I","L","E","D">>],
      [type |-> "error",
       text |-> <<"e","r","r","o","r",":"," ","x">>],
      [type |-> "version_info",
       text |-> <<"C","o","n","s","o","l","e"," ",":"," ","6",".","3">>],
      [type |-> "list",
       text |-> <<"W","o","r","k","s","p","a","c","e","s","\n","=","=","=">>],
      [type |-> "info_block",
       text |-> <<" ","M","o","d","u","l","e",":"," ","x","\n">>],
      [type |-> "info_block",
       text |-> <<"B","a","s","i","c"," ","o","p","t","i","o","n","s",":",
               "\n">>],
      [type |-> "table",
       text |-> <<"a","\n","=","=","=","\n">>],
      [type |-> "table",
       text |-> <<"#"," ","N","a","m","e"," ","x","\n">>],
      [type |-> "table",
       text |-> <<"N","a","m","e"," ","C","u","r","r","e","n","t"," ","S","e",
               "t","t","i","n","g","\n">>],
      [type |-> "table",
       text |-> <<"a"," ","b","\n","-","-","-">>] }

\* one piece of every shape, for the outputs of several pieces
MixedFragments ==
    { FragNotFound, FragFramework, FragStarItem, FragNameLine, FragIdHeader,
      FragPlain }

\* the most pieces in one output
MaxParts == 3

\* the pieces, one per line: what they are and the text they make
RECURSIVE JoinLines(_)
JoinLines(parts) ==
    IF Len(parts) = 1 THEN Head(parts).text
    ELSE Head(parts).text \o <<"\n">> \o JoinLines(Tail(parts))

Output(parts) ==
    [parts |-> [i \in 1..Len(parts) |-> parts[i].type],
     text |-> JoinLines(parts)]

Injective(parts) ==
    \A i, j \in 1..Len(parts) : parts[i] = parts[j] => i = j

Outputs ==
    { Output(<<fragment>>) : fragment \in Fragments }
       \cup { Output(parts) :
                 parts \in { p \in UNION { [1..n -> MixedFragments] :
                                               n \in 2..MaxParts } :
                               Injective(p) } }

\* a caller calls detect_output_type(output)
DetectOutputTypeCall(c) ==
    /\ call[c].pc = "idle"
    /\ \E output \in Outputs :
          call' = [call EXCEPT ![c] =
             Return([op |-> "detect_output_type", pc |-> "called",
                     output |-> output.text, parts |-> output.parts,
                     result |-> NoResult],
                    DetectOutputType(output.text))]
    /\ UNCHANGED <<session_active, initialization_status, performance_stats>>

ParserNext ==
    \/ DetectOutputTypeCall(SoloCaller)
    \/ Acknowledge(SoloCaller)

ParserSpec == Init /\ [][ParserNext]_vars

(***************************************************************************)
(* get_adaptive_search_timeout (lines 446-458).  Times are in tenths of a  *)
(* second and complexity_factors in tenths, so that 0.5, 0.3 and the       *)
(* factor 15 stay whole numbers.                                           *)
(***************************************************************************)
\* self.config["timeouts"]["module_search"], 60.0 s
ModuleSearchTimeout == 600
\* the cap of line 458, 120.0 s
MaxSearchTimeout == 1200
\* the most terms in one query
MaxTerms == 3

\* str.count(sub): occurrences that do not overlap, from the left
RECURSIVE Count(_, _)
Count(s, sub) ==
    IF Len(s) < Len(sub) THEN 0
    ELSE IF SubSeq(s, 1, Len(sub)) = sub
         THEN 1 + Count(SubSeq(s, Len(sub) + 1, Len(s)), sub)
         ELSE Count(Tail(s), sub)

\* a variant of lines 455-456 that counts the ":" of a query once
ComplexityFactorsColonOnce(query, limit) ==
    LET platform == IF Contains(query, <<"p","l","a","t","f","o","r","m",":">>)
                    THEN 10 ELSE 0
        type == IF Contains(query, <<"t","y","p","e",":">>) THEN 5 ELSE 0
        large == IF limit > 100 THEN 10 ELSE 0
        criteria_count == Min(Count(query, <<":">>), 1)
                          + Count(query, <<"A","N","D">>)
                          + Count(query, <<"O","R">>) IN
    platform + type + large + criteria_count * 3

\* lines 448-456, in tenths
ComplexityFactors(query, limit) ==
    LET platform == IF Contains(query, <<"p","l","a","t","f","o","r","m",":">>)
                    THEN 10 ELSE 0
        type == IF Contains(query, <<"t","y","p","e",":">>) THEN 5 ELSE 0
        large == IF limit > 100 THEN 10 ELSE 0
        criteria_count == Count(query, <<":">>)
                          + Count(query, <<"A","N","D">>)
                          + Count(query, <<"O","R">>) IN
    platform + type + large + criteria_count * 3

\* a variant of line 458 that returns the timeout without the cap
GetAdaptiveSearchTimeoutUncapped(query, limit) ==
    ModuleSearchTimeout + ComplexityFactors(query, limit) * 15

\* get_adaptive_search_timeout
GetAdaptiveSearchTimeout(query, limit) ==
    Min(ModuleSearchTimeout + ComplexityFactors(query, limit) * 15,
        MaxSearchTimeout)

\* the terms of the queries given, each with what it holds: a platform
\* filter, a type filter, and how many ":", "AND" and "OR"
Terms ==
    { [text |-> <<"s","s","h">>,
       platform |-> 0, type |-> 0, colons |-> 0, ands |-> 0, ors |-> 0],
      [text |-> <<"p","l","a","t","f","o","r","m",":","w","i","n">>,
       platform |-> 1, type |-> 0, colons |-> 1, ands |-> 0, ors |-> 0],
      [text |-> <<"t","y","p","e",":","l","o","c","a","l">>,
       platform |-> 0, type |-> 1, colons |-> 1, ands |-> 0, ors |-> 0],
      [text |-> <<"c","v","e",":","2","0","1","7",":","0","1","4","4">>,
       platform |-> 0, type |-> 0, colons |-> 2, ands |-> 0, ors |-> 0],
      [text |-> <<"A","N","D">>,
       platform |-> 0, type |-> 0, colons |-> 0, ands |-> 1, ors |-> 0],
      [text |-> <<"O","R","A","C","L","E">>,
       platform |-> 0, type |-> 0, colons |-> 0, ands |-> 0, ors |-> 1],
      [text |-> <<"a","n","d","r","o","i","d">>,
       platform |-> 0, type |-> 0, colons |-> 0, ands |-> 0, ors |-> 0],
      [text |-> <<"e","x","p","l","o","i","t">>,
       platform |-> 0, type |-> 0, colons |-> 0, ands |-> 0, ors |-> 0],
      [text |-> <<"p","l","a","t","f","o","r","m",":","w","i","n","d","o","w",
                  "s">>,
       platform |-> 1, type |-> 0, colons |-> 1, ands |-> 0, ors |-> 0],
      [text |-> <<"a",":","b",":","c",":","d",":","e">>,
       platform |-> 0, type |-> 0, colons |-> 4, ands |-> 0, ors |-> 0] }

\* the terms of a query, a space between them
RECURSIVE JoinTerms(_)
JoinTerms(terms) ==
    IF terms = <<>> THEN <<>>
    ELSE IF Len(terms) = 1 THEN Head(terms).text
    ELSE Head(terms).text \o <<" ">> \o JoinTerms(Tail(terms))

TermLists == UNION { [1..n -> Terms] : n \in 0..MaxTerms }

\* the limits given: the default, and the ones around the test of line 453
SearchLimits == {25, 100, 101, 150}

\* a caller calls get_adaptive_search_timeout(query, limit)
GetAdaptiveSearchTimeoutCall(c) ==
    /\ call[c].pc = "idle"
    /\ \E terms \in TermLists, limit \in SearchLimits :
          call' = [call EXCEPT ![c] =
             Return([op |-> "get_adaptive_search_timeout", pc |-> "called",
                     query |-> JoinTerms(terms), terms |-> terms,
                     limit |-> limit, result |-> NoResult],
                    GetAdaptiveSearchTimeout(JoinTerms(terms), limit))]
    /\ UNCHANGED <<session_active, initialization_status, performance_stats>>

TimeoutNext ==
    \/ GetAdaptiveSearchTimeoutCall(SoloCaller)
    \/ Acknowledge(SoloCaller)

TimeoutSpec == Init /\ [][TimeoutNext]_vars

(***************************************************************************)
(* MSFParser.parse and its extractors (src/msf_parser.py, lines 96-283).   *)
(* A value that may be None is a sequence: <<>> for None, <<v>> for v.     *)
(* Where the source counts the lines from 0, the model counts them from 1  *)
(* and writes 0 for the header_idx of -1.                                  *)
(***************************************************************************)
\* str.startswith(prefix)
StartsWith(s, prefix) ==
    Len(s) >= Len(prefix) /\ SubSeq(s, 1, Len(prefix)) = prefix

\* str.lstrip()
RECURSIVE LStrip(_)
LStrip(s) ==
    IF s # <<>> /\ Head(s) \in SpaceChars THEN LStrip(Tail(s)) ELSE s

\* the length of the word that s starts with
WordEnd(s) ==
    IF \A i \in 1..Len(s) : s[i] \notin SpaceChars THEN Len(s)
    ELSE (CHOOSE i \in 1..Len(s) :
             s[i] \in SpaceChars
             /\ \A j \in 1..(i - 1) : s[j] \notin SpaceChars) - 1

\* str.split(None, maxsplit): words at runs of whitespace, the rest of the
\* text as the last one after maxsplit splits; maxsplit < 0 is str.split()
RECURSIVE Split(_, _)
Split(s, maxsplit) ==
    LET rest == LStrip(s) IN
    IF rest = <<>> THEN <<>>
    ELSE IF maxsplit = 0 THEN <<rest>>
    ELSE <<SubSeq(rest, 1, WordEnd(rest))>>
         \o Split(SubSeq(rest, WordEnd(rest) + 1, Len(rest)), maxsplit - 1)

\* sep.join(parts)
RECURSIVE Join(_, _)
Join(parts, sep) ==
    IF parts = <<>> THEN <<>>
    ELSE IF Len(parts) = 1 THEN parts[1]
    ELSE parts[1] \o sep \o Join(Tail(parts), sep)

\* parts[i] if len(parts) > i else "", i counted from 0
PartOrEmpty(parts, i) == IF Len(parts) > i THEN parts[i + 1] ELSE <<>>

SetMin(S) == CHOOSE x \in S : \A y \in S : x <= y
SetMax(S) == CHOOSE x \in S : \A y \in S : y <= x

\* the dataclass ParsedOutput
ParsedOutput(output_type, success, data, raw_output, error_message, metadata) ==
    [output_type |-> output_type, success |-> success, data |-> data,
     raw_output |-> raw_output, error_message |-> error_message,
     metadata |-> metadata]

\* lines 98-103
RECURSIVE ErrorLines(_)
ErrorLines(lines) ==
    IF lines = <<>> THEN <<>>
    ELSE LET line == Strip(Head(lines)) IN
         (IF StartsWith(line, <<"[","-","]">>)
          THEN <<Strip(SubSeq(line, 4, Len(line)))>>
          ELSE IF \/ Contains(Lower(line), <<"e","r","r","o","r">>)
                  \/ Contains(Lower(line), <<"f","a","i","l","e","d">>)
               THEN <<line>>
               ELSE <<>>)
         \o ErrorLines(Tail(lines))

\* line 109
ErrorMessage(error_lines) ==
    IF error_lines # <<>> THEN Join(error_lines, <<" ","|"," ">>)
    ELSE <<"U","n","k","n","o","w","n"," ","e","r","r","o","r">>

\* parse_error_output
ParseErrorOutput(output) ==
    LET error_lines == ErrorLines(SplitLines(output)) IN
    ParsedOutput("error", FALSE, [errors |-> error_lines], output,
                 <<ErrorMessage(error_lines)>>, <<>>)

\* ([^\n\r]+)
LineRest == Plus(NotChr({"\n", "\r"}))

\* the patterns of lines 115-117 up to their group
VersionLabels ==
    [framework |-> \* Framework:\s*
        Cat(<<Str(<<"F","r","a","m","e","w","o","r","k",":">>), Star(Space)>>),
     console |-> \* Console\s*:\s*
        Cat(<<Str(<<"C","o","n","s","o","l","e">>), Star(Space), Chr({":"}), Star(Space)>>),
     ruby |-> \* Ruby\s*:\s*
        Cat(<<Str(<<"R","u","b","y">>), Star(Space), Chr({":"}), Star(Space)>>)]

\* lines 120-122: match.group(1).strip() of re.search(label + group, output,
\* re.IGNORECASE): the leftmost match, its \s* as long as the group allows,
\* the group as long as it can be
LabelledValue(label, output) ==
    LET fl == Flags(TRUE, FALSE)
        starts == {i \in 0..Len(output) :
                      Ends(Cat(<<label, LineRest>>), output, i, fl) # {}} IN
    IF starts = {} THEN <<>>
    ELSE LET from == SetMax({p \in Ends(label, output, SetMin(starts), fl) :
                                Ends(LineRest, output, p, fl) # {}})
             to == SetMax(Ends(LineRest, output, from, fl)) IN
         <<Strip(SubSeq(output, from + 1, to))>>

\* parse_version_info
ParseVersionInfo(output) ==
    LET found == [key \in DOMAIN VersionLabels |->
                     LabelledValue(VersionLabels[key], output)]
        keys == {key \in DOMAIN VersionLabels : found[key] # <<>>} IN
    ParsedOutput("version_info", TRUE, [key \in keys |-> found[key][1]],
                 output, <<>>, <<>>)

\* lines 255-262
RECURSIVE ListItems(_)
ListItems(lines) ==
    IF lines = <<>> THEN <<>>
    ELSE LET line == Strip(Head(lines)) IN
         (IF \/ line = <<>>
             \/ Contains(line, <<"=">>)
             \/ line = <<"W","o","r","k","s","p","a","c","e","s">>
          THEN <<>>
          ELSE IF StartsWith(line, <<"*">>)
               THEN <<[name |-> Strip(Tail(line)), current |-> TRUE]>>
               ELSE <<[name |-> line, current |-> FALSE]>>)
         \o ListItems(Tail(lines))

\* parse_list_output
ParseListOutput(output) ==
    LET items == ListItems(SplitLines(output)) IN
    ParsedOutput("list", TRUE, items, output, <<>>,
                 <<[count |-> Len(items)]>>)

\* lines 129, 131, and 174, 197, 233, 244, each under its source text
TablePatterns ==
    [module_header |-> \* ^\s*#\s+Name
        Cat(<<Bol, Star(Space), Chr({"#"}), Plus(Space), Str(<<"N","a","m","e">>)>>),
     options_header |-> \* ^\s*Name\s+.*Setting
        Cat(<<Bol, Star(Space), Str(<<"N","a","m","e">>), Plus(Space), Star(AnyChar),
              Str(<<"S","e","t","t","i","n","g">>)>>),
     long_separator |-> \* ^[\s\-=]{10,}$
        Cat(<<Bol, AtLeast(10, Chr(SpaceChars \cup {"-", "="})), Eol>>),
     separator |-> \* ^[\s\-=]+$
        Cat(<<Bol, Plus(Chr(SpaceChars \cup {"-", "="})), Eol>>)]

\* re.search and re.match on one line, without flags
SearchLine(pattern, line) == Search(pattern, line, Flags(FALSE, FALSE))
MatchLine(pattern, line) == Match(pattern, line, Flags(FALSE, FALSE))

\* lines 127-132: the last header line seen before the scan ends, which it
\* does at a long separator once a header has been seen
RECURSIVE HeaderScan(_, _, _)
HeaderScan(lines, i, header_idx) ==
    IF i > Len(lines) THEN header_idx
    ELSE IF \/ SearchLine(TablePatterns.module_header, lines[i])
            \/ SearchLine(TablePatterns.options_header, lines[i])
         THEN HeaderScan(lines, i + 1, i)
         ELSE IF /\ SearchLine(TablePatterns.long_separator, lines[i])
                 /\ header_idx # 0
              THEN header_idx
              ELSE HeaderScan(lines, i + 1, header_idx)

\* lines 134-139: the first line of three words or more whose first three
\* have more than one character and which does not start with "#"
GenericHeader(lines) ==
    LET fits == {i \in 1..Len(lines) :
                    LET words == Split(lines[i], 0 - 1) IN
                    /\ Len(words) >= 3
                    /\ ~ StartsWith(lines[i], <<"#">>)
                    /\ \A k \in 1..3 : Len(words[k]) > 1} IN
    IF fits = {} THEN 0 ELSE SetMin(fits)

\* lines 153-167
RECURSIVE ModuleRows(_)
ModuleRows(lines) ==
    IF lines = <<>> THEN <<>>
    ELSE LET line == Strip(Head(lines))
             parts == Split(line, 5) IN
         IF line = <<>> \/ StartsWith(line, <<"I","n","t","e","r","a","c","t"," ","w","i","t","h">>)
         THEN <<>>
         ELSE (IF Len(parts) >= 2
               THEN <<[index |-> parts[1],
                       name |-> PartOrEmpty(parts, 1),
                       disclosure_date |-> PartOrEmpty(parts, 2),
                       rank |-> PartOrEmpty(parts, 3),
                       check |-> PartOrEmpty(parts, 4),
                       description |-> PartOrEmpty(parts, 5)]>>
               ELSE <<>>)
              \o ModuleRows(Tail(lines))

\* _parse_module_search_table
ParseModuleSearchTable(lines, header_idx) ==
    LET modules == ModuleRows(Slice(lines, header_idx + 1, Len(lines))) IN
    ParsedOutput("table", TRUE, modules, Join(lines, <<"\n">>), <<>>,
                 <<[table_type |-> "module_search",
                    count |-> Len(modules)]>>)

\* lines 172-176
OptionsDataStart(lines, header_idx) ==
    LET rows == {i \in (header_idx + 1)..Len(lines) :
                    /\ Strip(lines[i]) # <<>>
                    /\ ~ MatchLine(TablePatterns.separator, lines[i])} IN
    IF rows = {} THEN header_idx + 1 ELSE SetMin(rows)

\* lines 177-189
RECURSIVE OptionRows(_)
OptionRows(lines) ==
    IF lines = <<>> THEN <<>>
    ELSE LET line == Strip(Head(lines))
             parts == Split(line, 3) IN
         IF line = <<>> \/ StartsWith(line, <<"D","e","s","c","r","i","p","t","i","o","n",":">>)
         THEN <<>>
         ELSE (IF Len(parts) >= 3
               THEN <<[name |-> parts[1],
                       current_setting |-> PartOrEmpty(parts, 1),
                       required |-> PartOrEmpty(parts, 2),
                       description |-> PartOrEmpty(parts, 3)]>>
               ELSE <<>>)
              \o OptionRows(Tail(lines))

\* _parse_options_table
ParseOptionsTable(lines, header_idx) ==
    LET options == OptionRows(Slice(lines,
                                    OptionsDataStart(lines, header_idx) - 1,
                                    Len(lines))) IN
    ParsedOutput("table", TRUE, options, Join(lines, <<"\n">>), <<>>,
                 <<[table_type |-> "options", count |-> Len(options)]>>)

\* lines 196-198
RECURSIVE SkipSeparators(_, _)
SkipSeparators(lines, data_start) ==
    IF /\ data_start <= Len(lines)
       /\ MatchLine(TablePatterns.separator, lines[data_start])
    THEN SkipSeparators(lines, data_start + 1)
    ELSE data_start

\* lines 205-207: a dict, so of two headers alike the later one stays
Row(headers, parts) ==
    [key \in {Lower(headers[i]) : i \in 1..Len(headers)} |->
        PartOrEmpty(parts, SetMax({i \in 1..Len(headers) :
                                      Lower(headers[i]) = key}) - 1)]

\* lines 199-208
RECURSIVE GenericRows(_, _)
GenericRows(lines, headers) ==
    IF lines = <<>> THEN <<>>
    ELSE LET line == Strip(Head(lines))
             parts == Split(line, Len(headers) - 1) IN
         (IF line # <<>> /\ parts # <<>> THEN <<Row(headers, parts)>>
          ELSE <<>>)
         \o GenericRows(Tail(lines), headers)

\* _parse_generic_table
ParseGenericTable(lines, header_idx) ==
    LET headers == Split(Strip(lines[header_idx]), 0 - 1)
        data == GenericRows(Slice(lines,
                                  SkipSeparators(lines, header_idx + 1) - 1,
                                  Len(lines)), headers) IN
    ParsedOutput("table", TRUE, data, Join(lines, <<"\n">>), <<>>,
                 <<[table_type |-> "generic", headers |-> headers,
                    count |-> Len(data)]>>)

\* a variant of lines 133-141 that takes the first line for the header when
\* none was found
HeaderIndexOrFirst(lines) ==
    IF HeaderScan(lines, 1, 0) # 0 THEN HeaderScan(lines, 1, 0)
    ELSE IF GenericHeader(lines) # 0 THEN GenericHeader(lines)
    ELSE 1

\* lines 127-139: header_idx, 0 when no header was found
HeaderIndex(lines) ==
    IF HeaderScan(lines, 1, 0) # 0 THEN HeaderScan(lines, 1, 0)
    ELSE GenericHeader(lines)

\* parse_table_output
ParseTableOutput(output) ==
    LET lines == SplitLines(output)
        header_idx == HeaderIndex(lines) IN
    IF header_idx = 0
    THEN ParsedOutput("raw", FALSE, output, output,
                      <<<<"C","o","u","l","d"," ","n","o","t"," ","d","e","t","e","c","t"," ","t","a","b","l","e"," ","s","t","r","u","c","t","u","r","e">>>>,
                      <<>>)
    ELSE LET header_line == Strip(lines[header_idx]) IN
         IF Contains(header_line, <<"#">>) /\ Contains(header_line, <<"N","a","m","e">>)
         THEN ParseModuleSearchTable(lines, header_idx)
         ELSE IF /\ Contains(header_line, <<"N","a","m","e">>)
                 /\ Contains(header_line, <<"S","e","t","t","i","n","g">>)
              THEN ParseOptionsTable(lines, header_idx)
              ELSE ParseGenericTable(lines, header_idx)

\* str.split(sep, 1) for a separator of one character
SplitOnce(s, sep) ==
    IF \A i \in 1..Len(s) : s[i] # sep THEN <<s>>
    ELSE LET n == SetMin({i \in 1..Len(s) : s[i] = sep}) IN
         <<SubSeq(s, 1, n - 1), SubSeq(s, n + 1, Len(s))>>

\* str.replace(" ", "_")
Underscored(s) == [i \in 1..Len(s) |-> IF s[i] = " " THEN "_" ELSE s[i]]

\* d[key] = value
Put(d, key, value) ==
    [k \in DOMAIN d \cup {key} |-> IF k = key THEN value ELSE d[k]]

\* lines 228-250: a line under the section it falls in; raised: the
\* exception of the unpacking of line 230 when the split gives no pair
InfoLine(line, current_section, sections) ==
    CASE current_section = "metadata" ->
            IF ~ Contains(line, <<":">>) THEN sections
            ELSE LET pair == SplitOnce(line, ":") IN
                 IF Len(pair) # 2
                 THEN [sections EXCEPT !.raised = <<"ValueError">>]
                 ELSE [sections EXCEPT !.metadata =
                          Put(@, Underscored(Lower(Strip(pair[1]))),
                              Strip(pair[2]))]
      [] current_section = "options" ->
            LET parts == Split(line, 3) IN
            IF \/ MatchLine(TablePatterns.separator, line)
               \/ StartsWith(line, <<"N","a","m","e">>)
               \/ Len(parts) < 3
            THEN sections
            ELSE [sections EXCEPT !.options =
                     Append(@, [name |-> parts[1],
                                current_setting |-> parts[2],
                                required |-> parts[3],
                                description |-> PartOrEmpty(parts, 3)])]
      [] current_section = "targets" ->
            LET parts == Split(line, 1) IN
            IF \/ StartsWith(line, <<"I","d">>)
               \/ MatchLine(TablePatterns.separator, line)
               \/ Len(parts) < 2
            THEN sections
            ELSE [sections EXCEPT !.targets =
                     Append(@, [id |-> parts[1], name |-> parts[2]])]
      [] OTHER ->
            [sections EXCEPT !.description = Strip(@ \o <<" ">> \o line)]

\* lines 215-250
RECURSIVE InfoLines(_, _, _)
InfoLines(lines, current_section, sections) ==
    IF lines = <<>> \/ sections.raised # <<>> THEN sections
    ELSE LET line == Strip(Head(lines)) IN
         IF line = <<>>
         THEN InfoLines(Tail(lines), current_section, sections)
         ELSE IF StartsWith(line, <<"B","a","s","i","c"," ","o","p","t","i","o","n","s",":">>)
         THEN InfoLines(Tail(lines), "options", sections)
         ELSE IF StartsWith(line, <<"A","v","a","i","l","a","b","l","e"," ","t","a","r","g","e","t","s",":">>)
         THEN InfoLines(Tail(lines), "targets", sections)
         ELSE IF StartsWith(line, <<"D","e","s","c","r","i","p","t","i","o","n",":">>)
         THEN InfoLines(Tail(lines), "description", sections)
         ELSE InfoLines(Tail(lines), current_section,
                        InfoLine(line, current_section, sections))

\* parse_info_block: a ParsedOutput, or the exception raised
ParseInfoBlock(output) ==
    LET sections == InfoLines(SplitLines(output), "metadata",
                              [metadata |-> [k \in {} |-> <<>>],
                               options |-> <<>>, targets |-> <<>>,
                               description |-> <<>>, raised |-> <<>>]) IN
    IF sections.raised # <<>> THEN [raised |-> sections.raised]
    ELSE ParsedOutput("info_block", TRUE,
                      [metadata |-> sections.metadata,
                       options |-> sections.options,
                       targets |-> sections.targets,
                       description |-> sections.description],
                      output, <<>>,
                      <<[sections |-> <<"metadata", "options", "targets",
                                        "description">>]>>)

\* a variant of line 266 that takes only the empty text for empty
IsEmptyOutputUnstripped(output) == output = <<>>

\* line 266: not output or not output.strip()
IsEmptyOutput(output) == output = <<>> \/ Strip(output) = <<>>

\* lines 270-281: the extractor of a shape, and what it returns or raises
Extract(output_type, output) ==
    CASE output_type = "error" ->
            [name |-> "parse_error_output",
             outcome |-> ParseErrorOutput(output)]
      [] output_type = "version_info" ->
            [name |-> "parse_version_info",
             outcome |-> ParseVersionInfo(output)]
      [] output_type = "table" ->
            [name |-> "parse_table_output",
             outcome |-> ParseTableOutput(output)]
      [] output_type = "info_block" ->
            [name |-> "parse_info_block",
             outcome |-> ParseInfoBlock(output)]
      [] output_type = "list" ->
            [name |-> "parse_list_output",
             outcome |-> ParseListOutput(output)]
      [] OTHER ->
            [name |-> "none",
             outcome |-> ParsedOutput("raw", TRUE, output, output, <<>>,
                                      <<>>)]

\* parse: its result, and in ran the methods it called, in order
ParseRun(output) ==
    IF IsEmptyOutput(output)
    THEN [ran |-> <<>>,
          result |-> ParsedOutput("raw", FALSE, <<>>, output,
                                  <<<<"E","m","p","t","y"," ","o","u","t","p","u","t">>>>, <<>>)]
    ELSE LET extracted == Extract(DetectOutputType(output), output) IN
         [ran |-> <<"detect_output_type", extracted.name>>,
          result |->
             IF "raised" \in DOMAIN extracted.outcome
             THEN \* lines 282-283
                  ParsedOutput("raw", FALSE, output, output,
                               <<<<"P","a","r","s","i","n","g"," ","f","a","i","l","e","d",":"," ">>
                                 \o extracted.outcome.raised>>, <<>>)
             ELSE extracted.outcome]

Parse(output) == ParseRun(output).result

(***************************************************************************)
(* _parse_search_output_full and _extract_module_type (src/msf/core.py,    *)
(* lines 573-666).  The character "ESC" stands for "\x1b".                 *)
(***************************************************************************)
\* the cut of a description, lines 609-610 and 637-638
MaxDescription == 80

NotSpace == NotChr(SpaceChars)

\* ansi_escape, lines 579-581: \x1b\[[0-9;]*[mGK] | \033\[[0-9;]*[mGK]
\* | \[\d+[mGK] | \[45m | \[0m | \[32m
AnsiEscape ==
    Alt(<< Cat(<<Chr({"ESC"}), Chr({"["}), Star(Chr(Digits \cup {";"})),
                 Chr({"m", "G", "K"})>>),
           Cat(<<Chr({"ESC"}), Chr({"["}), Star(Chr(Digits \cup {";"})),
                 Chr({"m", "G", "K"})>>),
           Cat(<<Chr({"["}), Plus(Digit), Chr({"m", "G", "K"})>>),
           Str(<<"[","4","5","m">>),
           Str(<<"[","0","m">>),
           Str(<<"[","3","2","m">>) >>)

\* ansi_escape.sub("", output), from the position i on: a match begins with
\* ESC or "[", and every alternative that matches at a place ends at the
\* same place
RECURSIVE StripAnsi(_, _)
StripAnsi(output, i) ==
    LET starts == {j \in i..(Len(output) - 1) :
                      output[j + 1] \in {"ESC", "["}} IN
    IF starts = {} THEN Slice(output, i, Len(output))
    ELSE LET j == SetMin(starts)
             ends == Ends(AnsiEscape, output, j, Flags(FALSE, FALSE)) IN
         IF ends # {}
         THEN Slice(output, i, j) \o StripAnsi(output, SetMax(ends))
         ELSE Slice(output, i, j + 1) \o StripAnsi(output, j + 1)

\* lines 586-596: the lines passed over before the strict match
PassedOver(line) ==
    \/ line = <<>>
    \/ StartsWith(line, <<"=">>)
    \/ StartsWith(line, <<"[">>)
    \/ Contains(line, <<"M","a","t","c","h","i","n","g">>)
    \/ StartsWith(line, <<"#">>)
    \/ StartsWith(line, <<"-">>)
    \/ Contains(line, <<"I","n","t","e","r","a","c","t"," ",
                                          "w","i","t","h"," ","a"," ","m","o",
                                          "d","u","l","e">>)
    \/ Contains(line, <<"A","f","t","e","r"," ","i","n","t","e","r","a","c","t","i","n","g">>)

\* lines 597-599:
\* ^\s*(\d+)\s+(\w+/[^\s]+)\s+(\S+|\.)\s+(\S+)\s+(Yes|No)\s+(.*)$
StrictRow ==
    Cat(<<Bol, Star(Space), Plus(Digit), Plus(Space),
          Plus(WordChar), Chr({"/"}), Plus(NotSpace), Plus(Space),
          Alt(<<Plus(NotSpace), Chr({"."})>>), Plus(Space),
          Plus(NotSpace), Plus(Space),
          Alt(<<Str(<<"Y","e","s">>), Str(<<"N","o">>)>>), Plus(Space),
          Star(AnyChar), Eol>>)

\* int(index) of a text of digits
RECURSIVE ToInt(_)
ToInt(digits) ==
    IF digits = <<>> THEN 0
    ELSE 10 * ToInt(SubSeq(digits, 1, Len(digits) - 1))
         + (CHOOSE n \in 0..9 :
               <<"0","1","2","3","4","5","6","7","8","9">>[n + 1]
                  = digits[Len(digits)])

\* _extract_module_type
ExtractModuleType(module_name) ==
    IF ~ Contains(module_name, <<"/">>) THEN <<"u","n","k","n","o","w","n">>
    ELSE LET type_part == SplitOnce(module_name, "/")[1] IN
         IF type_part \in {<<"e","x","p","l","o","i","t">>,
                           <<"a","u","x","i","l","i","a","r","y">>,
                           <<"p","o","s","t">>,
                           <<"p","a","y","l","o","a","d">>,
                           <<"e","n","c","o","d","e","r">>,
                           <<"n","o","p">>}
         THEN type_part
         ELSE <<"u","n","k","n","o","w","n">>

\* lines 609-610: description[:80] + "..." if it is longer than 80
Shortened(description) ==
    IF Len(description) > MaxDescription
    THEN Slice(description, 0, MaxDescription) \o <<".",".",".">>
    ELSE description

\* lines 600-621 for a line that matched: its groups are its first five
\* words and the rest of it, since no group but the last holds whitespace
\* and whitespace stands between them
StrictEntry(line) ==
    LET group == Split(line, 5)
        module_name == Strip(group[2])
        module_entry ==
            [name |-> module_name,
             description |-> Shortened(Strip(group[6])),
             type |-> ExtractModuleType(module_name),
             index |-> ToInt(group[1]),
             rank |-> group[4],
             check |-> group[5]] IN
    IF /\ Contains(module_name, <<"/">>)
       /\ Count(module_name, <<"/">>) >= 2
       /\ ~ (StartsWith(Strip(line), <<"\\","_">>)
             \/ Contains(line, <<"t","a","r","g","e","t",":">>))
    THEN <<IF group[3] # <<>> /\ group[3] # <<".">>
           THEN Put(module_entry, "disclosure_date", group[3])
           ELSE module_entry>>
    ELSE <<>>

\* lines 584-621
RECURSIVE StrictModules(_)
StrictModules(lines) ==
    IF lines = <<>> THEN <<>>
    ELSE LET line == Strip(Head(lines)) IN
         (IF ~ PassedOver(line) /\ MatchLine(StrictRow, line)
          THEN StrictEntry(line)
          ELSE <<>>)
         \o StrictModules(Tail(lines))

\* line 627-628: a line the lenient pass looks into
LenientLine(line) ==
    /\ \/ Contains(line, <<"e","x","p","l","o","i","t","/">>)
       \/ Contains(line, <<"a","u","x","i","l","i","a","r","y","/">>)
       \/ Contains(line, <<"p","o","s","t","/">>)
    /\ ~ StartsWith(line, <<"\\","_">>)

\* lines 631-633: a word the lenient pass takes for a module name
LenientName(part) ==
    /\ Contains(part, <<"/">>)
    /\ \/ Contains(part, <<"e","x","p","l","o","i","t">>)
       \/ Contains(part, <<"a","u","x","i","l","i","a","r","y">>)
       \/ Contains(part, <<"p","o","s","t">>)

\* lines 629-651 for such a line: the entry made of its first such word,
\* numbered len(modules), or none
LenientEntry(line, count) ==
    LET parts == Split(line, 0 - 1)
        names == {i \in 1..Len(parts) : LenientName(parts[i])} IN
    IF names = {} THEN <<>>
    ELSE LET i == SetMin(names) - 1
             desc_parts == IF Len(parts) > i + 4
                           THEN Slice(parts, i + 4, Len(parts))
                           ELSE <<>>
             description == Shortened(Join(desc_parts, <<" ">>)) IN
         <<[name |-> parts[i + 1],
            description |->
               IF description = <<>>
               THEN <<"N","o"," ","d","e","s","c","r","i",
                                          "p","t","i","o","n"," ","a","v","a",
                                          "i","l","a","b","l","e">>
               ELSE description,
            type |-> ExtractModuleType(parts[i + 1]),
            index |-> count]>>

\* lines 624-651
RECURSIVE LenientModules(_, _)
LenientModules(lines, modules) ==
    IF lines = <<>> THEN modules
    ELSE LET line == Strip(Head(lines)) IN
         LenientModules(Tail(lines),
                        IF LenientLine(line)
                        THEN modules \o LenientEntry(line, Len(modules))
                        ELSE modules)

\* _parse_search_output_full
ParseSearchOutputFull(output) ==
    LET lines == SplitLines(StripAnsi(output, 0))
        modules == StrictModules(lines) IN
    IF modules = <<>> THEN LenientModules(lines, <<>>) ELSE modules

(***************************************************************************)
(* The callers of parse and of _parse_search_output_full, and the outputs  *)
(* they pass.  An output is built of lines of known kinds, and carries     *)
(* what it was built of.                                                   *)
(***************************************************************************)
\* the most lines of failure text in one output
MaxFailureLines == 2

\* the most lines in one search listing
MaxRows == 3

\* lines of failure text; collected: what parse_error_output is to keep of
\* the line (the line without its "[-]"), if it is to keep it
FailureLines ==
    { [text |-> <<"[","-","]"," ","U","n","k","n","o","w","n"," ","c","o","m",
                  "m","a","n","d",":"," ","f","o","o">>,
       collected |-> <<<<"U","n","k","n","o","w","n"," ","c","o","m","m","a",
                         "n","d",":"," ","f","o","o">>>>],
      [text |-> <<"[","-","]">>, collected |-> <<<<>>>>],
      [text |-> <<"n","o","t"," ","f","o","u","n","d">>, collected |-> <<>>],
      [text |-> <<"E","r","r","o","r",":"," ","b">>, collected |-> <<<<"E","r","r","o","r",":"," ",
                                              "b">>>>],
      [text |-> <<"[","-","]"," ","a"," ","f","a","i","l","e","d"," "," ">>, collected |-> <<<<"a"," ","f","a","i","l",
                                                    "e","d">>>>] }

\* the lines an output of the given lines is to have collected, in order
RECURSIVE Collected(_)
Collected(lines) ==
    IF lines = <<>> THEN <<>>
    ELSE Head(lines).collected \o Collected(Tail(lines))

ParseInput(kind, text, failures) ==
    [kind |-> kind, text |-> text, failures |-> failures]

\* outputs of nothing but whitespace
BlankOutputs ==
    { <<>>, <<" ">>, <<"\n">>, <<" ", "\t", "\n", " ">> }

\* outputs that detect_output_type takes for a table and that have no
\* line parse_table_output can take for a header
HeaderlessOutputs ==
    { <<"a","\n","=","=","=","\n">>, <<"I","d"," ","N","a","m","e","\n">>, <<"x"," ","y"," ","z","\n","=","=","=","=","=",
                                 "\n">> }

\* module tables as the console prints them, the first with a row of two
\* columns only
ModuleTables ==
    { <<" "," ","#"," "," ","N","a","m","e"," "," ","D","i","s","c","l","o",
        "s","u","r","e"," ","D","a","t","e","\n"," "," ","-"," "," ","-","-",
        "-","-","\n"," "," ","0"," "," ","e","x","p","l","o","i","t","/","a",
        "/","b","\n">>,
      <<"#"," ","N","a","m","e","\n","-"," ","-","-","-","-","\n","1"," ","p",
        "o","s","t","/","c","/","d"," ","2","0","1","1"," ","g","r","e","a",
        "t"," ","Y","e","s"," ","S","o","m","e"," ","t","e","x","t","\n","2",
        " ","x">> }

ParseInputs ==
    { ParseInput("mixed", output.text, <<>>) : output \in Outputs }
       \cup { ParseInput("blank", text, <<>>) : text \in BlankOutputs }
       \cup { ParseInput("headerless", text, <<>>) :
                 text \in HeaderlessOutputs }
       \cup { ParseInput("module_table", text, <<>>) :
                 text \in ModuleTables }
       \cup { ParseInput("failure", JoinLines(lines), Collected(lines)) :
                 lines \in UNION { [1..n -> FailureLines] :
                                      n \in 1..MaxFailureLines } }

\* a caller calls parse(output)
ParseCall(c) ==
    /\ call[c].pc = "idle"
    /\ \E input \in ParseInputs :
          call' = [call EXCEPT ![c] =
             Return([op |-> "parse", pc |-> "called",
                     output |-> input.text, kind |-> input.kind,
                     failures |-> input.failures,
                     ran |-> ParseRun(input.text).ran,
                     result |-> NoResult],
                    Parse(input.text))]
    /\ UNCHANGED <<session_active, initialization_status, performance_stats>>

\* the lines of a search listing.  row: the line is numbered; well_formed:
\* the numbered line has a slash-qualified module name, a date or ".", a
\* rank, Yes or No and a description; name: its module name
ListingLines ==
    { [row |-> TRUE, well_formed |-> TRUE,
       name |-> <<"e","x","p","l","o","i","t","/","s","m","b","/","m","s","1",
                  "7","_","0","1","0">>,
       text |-> <<" "," ","e","x","p","l","o","i","t","/","s","m","b","/","m",
                  "s","1","7","_","0","1","0"," "," ","2","0","1","7","-","0",
                  "3","-","1","4"," "," ","g","r","e","a","t"," "," ","Y","e",
                  "s"," "," ","S","M","B"," ","R","C","E">>],
      [row |-> TRUE, well_formed |-> TRUE,
       name |-> <<"a","u","x","i","l","i","a","r","y","/","s","s","h","/","l",
                  "o","g","i","n">>,
       text |-> <<" "," ","a","u","x","i","l","i","a","r","y","/","s","s","h",
                  "/","l","o","g","i","n"," "," ","."," "," ","n","o","r","m",
                  "a","l"," "," ","N","o"," "," ","S","S","H"," ","L","o","g",
                  "i","n">>],
      [row |-> TRUE, well_formed |-> TRUE,
       name |-> <<"p","o","s","t","/","m","u","l","t","i","/","e","n","v">>,
       text |-> <<" "," ","p","o","s","t","/","m","u","l","t","i","/","e","n",
                  "v"," "," ","2","0","1","0","-","0","1","-","0","1"," "," ",
                  "n","o","r","m","a","l"," "," ","N","o"," "," ","M","a","t",
                  "c","h","i","n","g"," ","E","n","v">>],
      [row |-> TRUE, well_formed |-> TRUE,
       name |-> <<"e","x","p","l","o","i","t","/","c","/","d","/","e">>,
       text |-> <<"ESC","[","0","m"," "," ","ESC","[","3","2","m","e","x","p",
                  "l","o","i","t","/","c","/","d","/","e","ESC","[","0","m",
                  " "," ","2","0","2","0","-","0","1","-","0","1"," "," ","g",
                  "o","o","d"," "," ","Y","e","s"," "," ","C","o","l","o","u",
                  "r","e","d">>],
      [row |-> FALSE, well_formed |-> FALSE,
       name |-> <<>>,
       text |-> <<" "," ","9"," "," ","n","o","p","/","a","/","b"," "," ","2",
                  "0","1","1"," "," ","l","o","w"," "," ","M","a","y","b","e",
                  " "," ","x">>],
      [row |-> FALSE, well_formed |-> FALSE,
       name |-> <<>>,
       text |-> <<" "," "," "," ","\\","_"," ","t","a","r","g","e","t",":",
                  " ","W","i","n","d","o","w","s"," ","7">>] }

\* the number of the i-th line among the well-formed rows before and at it
RowNumber(lines, i) == Cardinality({j \in 1..i : lines[j].well_formed})

\* the text of an index from 0 to 9
IndexText(n) == <<<<"0","1","2","3","4","5","6","7","8","9">>[n + 1]>>

\* a listing: a heading and the lines, its well-formed rows numbered from 1
Listing(lines) ==
    [text |->
        Join(<<<<"M","a","t","c","h","i","n","g"," ","M","o","d","u","l","e",
                 "s">>,
               <<"=","=","=","=","=","=","=","=","=","=","=","=","=","=","=",
                 "=">>,
               <<" "," "," ","#"," "," ","N","a","m","e"," "," ","D","i","s",
                 "c","l","o","s","u","r","e"," ","D","a","t","e"," "," ","R",
                 "a","n","k"," "," ","C","h","e","c","k"," "," ","D","e","s",
                 "c","r","i","p","t","i","o","n">>>>
             \o [i \in 1..Len(lines) |->
                    IF lines[i].row
                    THEN <<" ", " ">> \o IndexText(RowNumber(lines, i))
                         \o lines[i].text
                    ELSE lines[i].text],
             <<"\n">>),
     rows |-> SelectSeq([i \in 1..Len(lines) |->
                            IF lines[i].well_formed
                            THEN lines[i].name ELSE <<>>],
                        LAMBDA name : name # <<>>)]

Listings ==
    { Listing(lines) :
         lines \in UNION { [1..n -> ListingLines] : n \in 0..MaxRows } }

\* a caller calls _parse_search_output_full(output)
ParseSearchOutputFullCall(c) ==
    /\ call[c].pc = "idle"
    /\ \E listing \in Listings :
          call' = [call EXCEPT ![c] =
             Return([op |-> "_parse_search_output_full", pc |-> "called",
                     output |-> listing.text, rows |-> listing.rows,
                     result |-> NoResult],
                    ParseSearchOutputFull(listing.text))]
    /\ UNCHANGED <<session_active, initialization_status, performance_stats>>

ParseNext ==
    \/ ParseCall(SoloCaller)
    \/ ParseSearchOutputFullCall(SoloCaller)
    \/ Acknowledge(SoloCaller)

ParseSpec == Init /\ [][ParseNext]_vars

(***************************************************************************)
(* Properties.                                                             *)
(***************************************************************************)
Returned(c) == call[c].pc = "returned"

InFlight(c) == call[c].pc \notin {"idle", "returned"}

\* the call was refused at lines 281-287
Refused(c) == call[c].result.error = "MSFConsole not initialized"

\* C1: every execute_command call made while the session is active has, when
\* it returns, incremented operations_count once and exactly one of
\* success_count and failure_count once (a Timeout result counts as a
\* failure); a call still running has counted the operation only; and with
\* concurrent calls no increment is lost: operations_count is the successes
\* plus the failures plus the calls still running.
C1_CountedExactlyOnce ==
    /\ \A c \in Callers :
          /\ (InExecute(c) /\ Returned(c) /\ ~ Refused(c)) =>
                /\ call[c].counted.ops = 1
                /\ call[c].counted.succ + call[c].counted.fail = 1
                /\ call[c].counted.succ = 1 <=>
                      call[c].result.status = "success"
                /\ call[c].result.status = "timeout" =>
                      call[c].counted.fail = 1
          /\ (InExecute(c) /\ InFlight(c)) =>
                call[c].counted = [ops |-> 1, succ |-> 0, fail |-> 0]
    /\ performance_stats.operations_count =
          performance_stats.success_count + performance_stats.failure_count
          + Cardinality({c \in Callers : InExecute(c) /\ InFlight(c)})

\* two calls ran concurrently: one has returned Timeout while the other,
\* admitted as well, is in its second attempt
C1_Witness ==
    \E c \in Callers, d \in Callers :
        /\ c # d
        /\ InExecute(c) /\ Returned(c) /\ call[c].result.status = "timeout"
        /\ InExecute(d) /\ call[d].pc = "communicate" /\ call[d].attempt = 1

\* C2: a call whose attempts all time out returns Timeout, not Failure, and
\* only at the final attempt: a call that returns right after a timed-out
\* attempt has made MaxRetries attempts and reports Timeout, and every
\* earlier attempt that did not succeed was followed by a backoff sleep and
\* a further attempt.
C2_TimeoutOnlyAtFinalAttempt ==
    \A c \in Callers : InExecute(c) =>
        LET f == call[c] IN
        /\ (Returned(c) /\ f.trace # <<>>
               /\ f.trace[Len(f.trace)] = "timeout") =>
              /\ Len(f.trace) = MaxRetries
              /\ f.result.status = "timeout"
        /\ (Returned(c) /\ f.result.status = "timeout") =>
              /\ Len(f.trace) = MaxRetries
              /\ f.trace[MaxRetries] = "timeout"
        /\ f.pc \in {"spawn", "communicate", "grace", "killwait"} =>
              /\ f.sleeps = Len(f.trace)
              /\ f.runs = Len(f.trace) + 1
        /\ f.pc = "sleep" =>
              /\ f.sleeps = Len(f.trace)
              /\ f.runs = Len(f.trace)
              /\ Len(f.trace) < MaxRetries

C2_Witness ==
    \E c \in Callers :
        /\ InExecute(c) /\ Returned(c)
        /\ call[c].trace = <<"timeout", "timeout", "timeout">>
        /\ call[c].result.status = "timeout"
        /\ call[c].sleeps = 2

\* C3: after an initialize() call that returns Failure the session-active
\* flag is false, whatever calls preceded it.
C3_FailedInitializeLeavesInactive ==
    \A c \in Callers :
        (call[c].op = "initialize" /\ Returned(c)
            /\ call[c].result.status = "failure") => ~ session_active

\* C4: when a call returns, every child process spawned during it has been
\* terminated and reaped.
C4_NoChildOutlivesRequest ==
    \A c \in Callers : Returned(c) => call[c].kids = 0

\* C5: execute_command called while the session is not active returns
\* Failure at once with execution_time 0: no validation, no child process,
\* no retry, no backoff, and performance_stats is left as it was.
C5_RefusedWhenInactive ==
    [][\A c \in Callers :
          (/\ call[c].pc = "idle"
           /\ call'[c].op \in {"execute_command", "search_modules"}
           /\ ~ session_active) =>
             /\ call'[c].pc = "returned"
             /\ call'[c].result.status = "failure"
             /\ call'[c].result.execution_time = 0
             /\ call'[c].result.error = "MSFConsole not initialized"
             /\ call'[c].runs = 0 /\ call'[c].sleeps = 0
             /\ call'[c].kids = 0 /\ call'[c].trace = <<>>
             /\ call'[c].counted = [ops |-> 0, succ |-> 0, fail |-> 0]
             /\ performance_stats' = performance_stats]_vars

\* a call refused after the counters had been in use
C5_Witness ==
    \E c \in Callers :
        /\ InExecute(c) /\ Returned(c) /\ Refused(c)
        /\ ~ session_active
        /\ performance_stats.operations_count > 0

\* C6: success_count + failure_count <= operations_count in every reachable
\* state, and no call is counted both as a success and as a failure.
C6_CountersConsistent ==
    /\ performance_stats.success_count + performance_stats.failure_count
          <= performance_stats.operations_count
    /\ \A c \in Callers :
          ~ (call[c].counted.succ > 0 /\ call[c].counted.fail > 0)

\* one call counted as a success, and one that timed out three times
\* counted as one failure
C6_Witness ==
    /\ performance_stats.success_count = 1
    /\ performance_stats.failure_count = 1
    /\ \E c \in Callers :
          /\ InExecute(c) /\ Returned(c)
          /\ call[c].trace = <<"timeout", "timeout", "timeout">>

\* C7: a call invokes the process runner at most MaxRetries times, and,
\* resumed whenever its await completes, it returns a result.
C7_BoundedRetriesAndReturn ==
    /\ [](InExecute(SoloCaller) => call[SoloCaller].runs <= MaxRetries)
    /\ (InExecute(SoloCaller) /\ InFlight(SoloCaller))
          ~> Returned(SoloCaller)

C7_Witness ==
    \E c \in Callers :
        /\ InExecute(c) /\ Returned(c)
        /\ call[c].runs = MaxRetries
        /\ call[c].result.status = "failure"

\* C8: execute_command returns Success only when the attempt it reports
\* completed within its timeout and passed the result-sanity check; the
\* payload is that attempt's {stdout, stderr, returncode}, its child has
\* exited, and no attempt was made after it.
C8_SuccessImpliesSaneResult ==
    \A c \in Callers :
        (call[c].op = "execute_command" /\ Returned(c)
            /\ call[c].result.status = "success") =>
           /\ call[c].result.data \in ProcessResults
           /\ ValidateResult(call[c].result.data)
           /\ call[c].trace # <<>>
           /\ call[c].trace[Len(call[c].trace)] = "success"
           /\ \A i \in 1..(Len(call[c].trace) - 1) :
                 call[c].trace[i] # "success"
           /\ call[c].runs = Len(call[c].trace)
           /\ call[c].kids = 0

\* a success on the second attempt, with a non-zero exit code accepted
C8_Witness ==
    \E c \in Callers :
        /\ call[c].op = "execute_command" /\ Returned(c)
        /\ call[c].result.status = "success"
        /\ call[c].result.data.returncode = 1
        /\ Len(call[c].trace) = 2

\* empty, whitespace-only, or holding a denylisted substring in any case
Rejectable(command) ==
    \/ command = <<>>
    \/ IsBlank(command)
    \/ \E dangerous \in DangerousCommands :
          Contains(Lower(command), dangerous)

\* the commands execute_command is given, by callers and by search_modules
CommandsGiven == Commands \cup {SearchPrefix \o query : query \in Queries}

RejectableGiven == {command \in CommandsGiven : Rejectable(command)}

\* C9: a command that is empty, whitespace-only or holds a denylisted
\* substring (in any case) is rejected with Failure without an execution
\* attempt: no process runner invocation, no child, no backoff sleep.
C9_InvalidCommandNotExecuted ==
    \A c \in Callers :
        (InExecute(c) /\ call[c].command \in RejectableGiven) =>
           /\ Returned(c)
           /\ call[c].result.status = "failure"
           /\ call[c].runs = 0 /\ call[c].kids = 0 /\ call[c].sleeps = 0
           /\ call[c].trace = <<>>

\* a denylisted command written in mixed case, rejected by validation
C9_Witness ==
    \E c \in Callers :
        /\ InExecute(c) /\ Returned(c)
        /\ call[c].command = CmdDangerous
        /\ call[c].result.error = "Command validation failed"

\* C10: initialize() tries the strategies in the order 1, 2, 3: strategy k
\* runs only after strategies 1..k-1 have each failed; the first success
\* ends the sequence, marks the session active and completed in that same
\* step, and is reported with its method and its attempt number.
C10_StrategiesInOrder ==
    /\ [](\A c \in Callers : call[c].op = "initialize" =>
            LET f == call[c] IN
            /\ f.pc = "strategy" =>
                  /\ f.attempt \in 1..Len(InitializationAttempts)
                  /\ f.trace = [i \in 1..(f.attempt - 1) |-> "failed"]
                  /\ f.runs = f.attempt
            /\ (Returned(c) /\ f.result.status = "success") =>
                  /\ f.result.data.attempt = Len(f.trace)
                  /\ f.runs = Len(f.trace)
                  /\ f.trace[Len(f.trace)] = "succeeded"
                  /\ \A i \in 1..(Len(f.trace) - 1) : f.trace[i] = "failed"
                  /\ f.result.data.initialization_method =
                        InitializationAttempts[f.result.data.attempt]
            /\ (Returned(c) /\ f.result.error
                                 = "All initialization attempts failed") =>
                  f.trace = <<"failed", "failed", "failed">>)
    /\ [][\A c \in Callers :
            (call[c].pc = "strategy" /\ call'[c].pc = "returned"
                /\ call'[c].result.status = "success") =>
               /\ session_active'
               /\ initialization_status' = "completed"]_vars

\* strategies 1 and 2 failed and strategy 3 succeeded
C10_Witness ==
    \E c \in Callers :
        /\ call[c].op = "initialize" /\ Returned(c)
        /\ call[c].result.status = "success"
        /\ call[c].result.data.attempt = 3
        /\ call[c].result.data.initialization_method
              = "_attempt_offline_initialization"
        /\ session_active /\ initialization_status = "completed"

\* a step of an initialize() call: the call itself or one of its strategies
InitializeStep ==
    \E c \in Callers : call'[c].op = "initialize" /\ call'[c] # call[c]

\* a step of an execute_command call, made directly or by search_modules
ExecuteStep ==
    \E c \in Callers :
        /\ call'[c].op \in {"execute_command", "search_modules"}
        /\ call'[c] # call[c]

Settled == {"completed", "failed", "error"}

\* C11: whenever an initialize() call returns, initialization_status is
\* completed, failed or error (never in_progress or not_started), and it is
\* completed exactly when the call returned Success.
C11_ReturnedInitializeIsSettled ==
    \A c \in Callers :
        (call[c].op = "initialize" /\ Returned(c)) =>
            /\ initialization_status \in Settled
            /\ initialization_status = "completed"
                  <=> call[c].result.status = "success"

\* C12 as claimed: once initialization_status is completed, failed or error,
\* only a fresh initialize() call changes it; execute_command,
\* search_modules, generate_payload, get_status and cleanup leave it as it is.
C12_OnlyInitializeLeavesSettled ==
    [][(initialization_status \in Settled
          /\ initialization_status' # initialization_status)
         => InitializeStep]_vars

\* C12 as amended: once initialization_status is completed, failed or error,
\* only an initialize() call or cleanup() changes it, and cleanup() sets it
\* to "cleanup"; execute_command, search_modules, generate_payload and
\* get_status leave it as it is.
C12_OnlyInitializeAndCleanupLeaveSettled ==
    [][(initialization_status \in Settled
          /\ initialization_status' # initialization_status)
         => \/ InitializeStep
            \/ /\ initialization_status' = "cleanup"
               /\ ~ session_active'
               /\ UNCHANGED <<call, performance_stats>>]_vars

\* the session was completed and used, then cleaned up, and a later
\* execute_command has left the status at "cleanup"
C12_Witness ==
    /\ initialization_status = "cleanup"
    /\ performance_stats.success_count > 0
    /\ call[SoloCaller].op = "execute_command"
    /\ Returned(SoloCaller) /\ Refused(SoloCaller)

\* C13: a failed network check does not block initialization: when the
\* binary, resource and directory checks pass, initialize() never returns
\* "Pre-initialization checks failed" because of the network check alone.
C13_UnreachableNetworkDoesNotBlock ==
    \A c \in Callers :
        (/\ call[c].op = "initialize" /\ Returned(c)
         /\ call[c].result.error = "Pre-initialization checks failed")
            => call[c].trace # <<"network">>

\* C14: at no time are two initialize() calls both running their strategy
\* sequences: a call made while another is in progress does not run its own.
C14_OneStrategySequenceAtATime ==
    \A c, d \in Callers :
        (/\ call[c].op = "initialize" /\ call[c].pc = "strategy"
         /\ call[d].op = "initialize" /\ call[d].pc = "strategy")
            => c = d

\* C15: no counter of performance_stats ever decreases, and only a step of
\* execute_command changes any of them: the steps of initialize (also after
\* a cleanup), generate_payload, get_status and cleanup leave all four as
\* they are.
C15_StatsOnlyGrowByExecuteCommand ==
    [][/\ performance_stats'.operations_count
             >= performance_stats.operations_count
       /\ performance_stats'.success_count
             >= performance_stats.success_count
       /\ performance_stats'.failure_count
             >= performance_stats.failure_count
       /\ performance_stats'.total_execution_time
             >= performance_stats.total_execution_time
       /\ performance_stats' # performance_stats => ExecuteStep
       /\ (\/ initialization_status' # initialization_status
           \/ session_active' # session_active
           \/ \E c \in Callers :
                 /\ call'[c].op \in {"initialize", "generate_payload"}
                 /\ call'[c] # call[c])
             => performance_stats' = performance_stats]_vars

\* the counters were in use, the session was cleaned up (it is not active),
\* an initialize() after that has failed, and a generate_payload has
\* returned: the counters are still there
C15_Witness ==
    /\ call[SoloCaller].op = "generate_payload" /\ Returned(SoloCaller)
    /\ initialization_status = "failed" /\ ~ session_active
    /\ performance_stats.operations_count = MaxOps
    /\ performance_stats.success_count > 0
    /\ performance_stats.failure_count > 0
    /\ performance_stats.total_execution_time > 0

\* the call of _apply_smart_result_limiting that caller c is in
Limiting(c) == call[c].op = "_apply_smart_result_limiting"

\* C16: _apply_smart_result_limiting terminates: the loop starts at
\* N = min(limit, len(modules)), N stays at least 1, and every pass of the
\* body that does not end the loop makes N smaller, a pass at N = 1 ending
\* it: the passes made and N together never exceed the first N.
C16_LimitingTerminates ==
    \A c \in Callers :
        (Limiting(c) /\ call[c].pc = "loop") =>
            LET f == call[c] IN
            /\ f.current_limit >= 1
            /\ f.iterations = 0 =>
                  f.current_limit = Min(f.limit, Len(f.modules))
            /\ f.iterations + f.current_limit
                  <= Min(f.limit, Len(f.modules))

\* C17: for a non-empty list the call never returns an empty list, and for
\* a single record that is over the budget the first pass of the loop is
\* the last: the call has returned exactly that record, was_limited false.
C17_SingleOversizedRecordReturned ==
    \A c \in Callers :
        Limiting(c) =>
            LET f == call[c] IN
            /\ (Returned(c) /\ f.modules # <<>>) => f.result.modules # <<>>
            /\ (/\ Len(f.modules) = 1 /\ f.limit = 1
                /\ EstimateResponseTokens(f.modules) > f.target_tokens
                /\ f.iterations >= 1)
                  => /\ Returned(c)
                     /\ f.result = [modules |-> f.modules,
                                    was_limited |-> FALSE]

\* C18: the records returned are the first N records given, in their order,
\* with N <= min(limit, len(modules)), and when N is 2 or more their
\* estimated tokens are within target_tokens.
C18_ReturnsPrefixWithinBudget ==
    \A c \in Callers :
        (Limiting(c) /\ Returned(c)) =>
            LET f == call[c]
                out == f.result.modules
                N == Len(out) IN
            /\ N <= Min(f.limit, Len(f.modules))
            /\ out = [i \in 1..N |-> f.modules[i]]
            /\ EstimateResponseTokens(out) <= f.target_tokens \/ N <= 1

\* four different records with limit 5 and a budget of two records: the
\* loop went 4, 3, 2 and the first two records were returned
C18_Witness ==
    \E c \in Callers :
        /\ Limiting(c) /\ Returned(c)
        /\ call[c].modules = <<ModuleB, ModuleA, ModuleC, ModuleB>>
        /\ call[c].limit = 5 /\ call[c].target_tokens = 680
        /\ call[c].iterations = 3
        /\ call[c].result.modules = <<ModuleB, ModuleA>>
        /\ call[c].result.was_limited

\* the pages 1..n of a result set, one after the other
RECURSIVE PagesUpTo(_, _, _)
PagesUpTo(all_modules, limit, n) ==
    IF n = 0 THEN <<>>
    ELSE PagesUpTo(all_modules, limit, n - 1)
            \o PaginatedModules(all_modules, limit, n)

Elements(seq) == {seq[i] : i \in 1..Len(seq)}

\* C19: for a result set of total_count modules and page size s >= 1,
\* total_pages is the least number of pages of s that hold them all; page p
\* in 1..total_pages is the modules (p-1)*s+1 .. min(p*s, total_count), as
\* sliced before the token limit; different pages share no module, pages
\* 1..total_pages one after the other are the result set; has_next is
\* p < total_pages and has_previous is p > 1.
C19_PagesPartitionTheResultSet ==
    \A c \in Callers :
        (/\ call[c].op = "search_modules" /\ Returned(c)
         /\ call[c].result.status = "success"
         /\ "pagination" \in DOMAIN call[c].result.data) =>
            LET f == call[c]
                d == f.result.data.pagination
                s == d.page_size
                T == Len(f.all_modules)
                p == f.page IN
            /\ s >= 1 /\ s = Min(f.limit, MaxPageSize)
            /\ d.total_count = T /\ d.current_page = p
            /\ d.total_pages * s >= T /\ (d.total_pages - 1) * s < T
            /\ d.has_next = (p < d.total_pages)
            /\ d.has_previous = (p > 1)
            /\ p \in 1..d.total_pages =>
                  f.paginated_modules =
                     [i \in 1..Min(s, T - (p - 1) * s) |->
                         f.all_modules[(p - 1) * s + i]]
            /\ \A q \in 1..d.total_pages :
                  (p \in 1..d.total_pages /\ q # p) =>
                     Elements(f.paginated_modules) \cap
                        Elements(PaginatedModules(f.all_modules, s, q)) = {}
            /\ PagesUpTo(f.all_modules, s, d.total_pages) = f.all_modules

\* five modules in pages of two: page 3 is the last and holds the fifth
C19_Witness ==
    \E c \in Callers :
        /\ call[c].op = "search_modules" /\ Returned(c)
        /\ call[c].result.status = "success"
        /\ Len(call[c].all_modules) = 5 /\ call[c].limit = 2
        /\ call[c].page = 3
        /\ call[c].result.data.pagination.total_pages = 3
        /\ call[c].paginated_modules = <<NumberedModule(5)>>
        /\ call[c].result.data.modules = <<NumberedModule(5)>>
        /\ ~ call[c].result.data.pagination.has_next
        /\ call[c].result.data.pagination.has_previous

\* the output types from the first to the last in priority
Priority == <<"error", "version_info", "list", "info_block", "table", "raw">>

Rank(type) == CHOOSE k \in 1..Len(Priority) : Priority[k] = type

\* C20: detect_output_type returns the type of the first group, in the order
\* error, version_info, list, info_block, table, that has a match in the
\* output, and raw when none has: of the shapes that the pieces of the
\* output show, the one first in priority, wherever its piece stands.
C20_FirstGroupInPriorityOrderWins ==
    \A c \in Callers :
        (call[c].op = "detect_output_type" /\ Returned(c)) =>
            LET f == call[c] IN
            /\ \E i \in 1..Len(f.parts) : f.parts[i] = f.result
            /\ \A i \in 1..Len(f.parts) : Rank(f.result) <= Rank(f.parts[i])

\* a table header, then a list item, then a version line: version_info
C20_Witness ==
    \E c \in Callers :
        /\ call[c].op = "detect_output_type" /\ Returned(c)
        /\ call[c].parts = <<"table", "list", "version_info">>
        /\ call[c].output = JoinLines(<<FragIdHeader, FragStarItem,
                                        FragFramework>>)
        /\ call[c].result = "version_info"

(***************************************************************************)
(* The retry loop and the process runner, attempt by attempt.              *)
(***************************************************************************)
\* C27: the attempts of one execute_command call run one after another: the
\* call never has more than one child alive, it has none while it is about
\* to spawn or sleeping, and the attempt numbered k (from 0) starts only
\* after k attempts have ended and k backoff sleeps have been started and
\* have elapsed.
C27_AttemptsStrictlySequential ==
    \A c \in Callers : InExecute(c) =>
        LET f == call[c] IN
        /\ f.kids \in {0, 1}
        /\ f.pc \in {"spawn", "sleep", "returned"} => f.kids = 0
        /\ f.pc \in {"communicate", "grace", "killwait"} => f.kids = 1
        /\ f.pc \in {"spawn", "communicate", "grace", "killwait"} =>
              /\ Len(f.trace) = f.attempt
              /\ f.sleeps = f.attempt
              /\ f.runs = f.attempt + 1

\* the third attempt's child is alive after a timed-out and a refused attempt
C27_Witness ==
    /\ call[SoloCaller].op = "execute_command"
    /\ call[SoloCaller].pc = "communicate"
    /\ call[SoloCaller].attempt = 2
    /\ call[SoloCaller].kids = 1
    /\ call[SoloCaller].trace = <<"timeout", "rejected">>

\* C28: once the child of an attempt has exceeded its timeout, the attempt
\* ends as a timeout and with the child gone: no step taken while the runner
\* is in its await of communicate() or in its termination sequence ends the
\* attempt with an error, and a step that ends the termination sequence
\* records a timeout and leaves no child.
C28_TimeoutRaisedAfterChildExit ==
    [][\A c \in Callers :
          (InExecute(c) /\ call[c].pc \in {"communicate", "grace", "killwait"}
             /\ call'[c].trace # call[c].trace) =>
             /\ call'[c].trace[Len(call'[c].trace)] # "error"
             /\ call[c].pc \in {"grace", "killwait"} =>
                   /\ call'[c].trace = Append(call[c].trace, "timeout")
                   /\ call'[c].kids = 0]_vars

\* C29: the result-sanity check refuses a completed attempt exactly when its
\* exit code is not zero and its stderr carries "fatal" or "critical" in any
\* letter case: a refused result is one of the two such results a child can
\* give, an accepted one is none of them; a refusal is followed by the
\* backoff sleep before the next attempt, and at the last attempt by the
\* return of Failure.
C29_SanityCheckDecidesTheAttempt ==
    \A c \in Callers : InExecute(c) =>
        LET f == call[c]
            refused == { [stdout |-> <<>>, stderr |-> ErrFatal,
                          returncode |-> 1],
                         [stdout |-> OutOk, stderr |-> ErrCritical,
                          returncode |-> 1] }
        IN
        /\ (f.trace # <<>> /\ f.trace[Len(f.trace)] = "rejected"
               /\ f.pc \in {"sleep", "returned"}) =>
              /\ f.judged \in refused
              /\ f.pc = "sleep" <=> Len(f.trace) < MaxRetries
              /\ f.pc = "returned" =>
                    /\ f.result.status = "failure"
                    /\ f.result.error = "All retry attempts failed"
        /\ f.judged # NoData =>
              /\ f.trace # <<>> /\ f.trace[Len(f.trace)] = "rejected"
              /\ f.pc \in {"sleep", "returned"}
        /\ (f.pc = "returned" /\ f.result.status = "success") =>
              /\ f.result.data \notin refused
              /\ f.trace[Len(f.trace)] = "success"

\* the last attempt's result, upper-case CRITICAL on stderr with exit code
\* 1, was refused after two refusals, and the call returned Failure
C29_Witness ==
    /\ call[SoloCaller].op = "execute_command"
    /\ call[SoloCaller].pc = "returned"
    /\ call[SoloCaller].trace = <<"rejected", "rejected", "rejected">>
    /\ call[SoloCaller].judged.stderr = ErrCritical
    /\ call[SoloCaller].result.status = "failure"

\* the attempts of a call that were followed, or are to be followed, by a
\* backoff sleep, given the ways of ending that are followed by one
SleptAfter(f, endings) ==
    { i \in 1..Len(f.trace) : f.trace[i] \in endings /\ i < MaxRetries }

\* C30 as stated: a backoff sleep follows attempt i exactly when the attempt
\* did not succeed and i < MaxRetries - 1.
C30_SleepAfterEveryUnsuccessfulAttempt ==
    \A c \in Callers : InExecute(c) =>
        call[c].sleeps =
            Cardinality(SleptAfter(call[c],
                                   {"timeout", "rejected", "error"}))

\* C30, amended: a backoff sleep follows attempt i exactly when the attempt
\* timed out or had its result refused and i < MaxRetries - 1; the sleeps
\* last 2.0 s and then 3.0 s; no sleep follows the last attempt, a
\* successful attempt or an attempt that raised another error.
C30_SleepAfterTimeoutOrRefusal ==
    \A c \in Callers : InExecute(c) =>
        LET f == call[c] IN
        /\ f.sleeps = Cardinality(SleptAfter(f, {"timeout", "rejected"}))
        /\ Len(f.delays) = f.sleeps
        /\ f.sleeps <= MaxRetries - 1
        /\ \A i \in 1..Len(f.delays) : f.delays[i] = <<2000, 3000>>[i]
        /\ f.pc = "sleep" <=>
              /\ f.pc \notin {"idle", "returned"}
              /\ Len(f.trace) = f.attempt + 1
              /\ f.trace[Len(f.trace)] \in {"timeout", "rejected"}
        /\ (f.pc = "returned" /\ f.trace # <<>>) => f.sleeps = Len(f.trace) - 1

\* a call slept 2.0 s and 3.0 s and returned after its third attempt
C30_Witness ==
    /\ call[SoloCaller].op = "execute_command"
    /\ call[SoloCaller].pc = "returned"
    /\ call[SoloCaller].delays = <<2000, 3000>>
    /\ call[SoloCaller].trace = <<"rejected", "timeout", "success">>

\* how many of the terms of a call hold a thing, summed or at least one
RECURSIVE SumOver(_, _)
SumOver(terms, field) ==
    IF terms = <<>> THEN 0
    ELSE Head(terms)[field] + SumOver(Tail(terms), field)

Present(terms, field) == IF SumOver(terms, field) > 0 THEN 1 ELSE 0

\* C24: get_adaptive_search_timeout(query, limit) is min(60 + 15 *
\* complexity, 120) seconds, with complexity = [a platform filter] + 0.5 *
\* [a type filter] + [limit > 100] + 0.3 * (the ":" plus the "AND" plus the
\* "OR" of the query), so it lies between 60 s and 120 s; the terms the query
\* was made of and the limit fix it.  Ten times the value is compared, in
\* tenths of a second.
C24_AdaptiveTimeoutFormula ==
    \A c \in Callers :
        (call[c].op = "get_adaptive_search_timeout" /\ Returned(c)) =>
            LET f == call[c]
                criteria == SumOver(f.terms, "colons")
                            + SumOver(f.terms, "ands")
                            + SumOver(f.terms, "ors")
                over == IF f.limit > 100 THEN 1 ELSE 0
                \* 100 * complexity
                complexity == 100 * Present(f.terms, "platform")
                              + 50 * Present(f.terms, "type")
                              + 100 * over + 30 * criteria
                \* 100 * (base + 15 * complexity), in seconds
                expected == 6000 + 15 * complexity IN
            /\ 10 * f.result = (IF expected <= 12000 THEN expected ELSE 12000)
            /\ 600 <= f.result /\ f.result <= 1200

\* a query of a platform filter, a type filter and four more ":" with a
\* limit over 100 is capped at 120 s
C24_Witness ==
    /\ call[SoloCaller].op = "get_adaptive_search_timeout"
    /\ Returned(SoloCaller)
    /\ call[SoloCaller].result = 1200
    /\ call[SoloCaller].limit = 150
    /\ Len(call[SoloCaller].terms) = 3
    /\ SumOver(call[SoloCaller].terms, "colons") = 6

\* a call of parse, or of _parse_search_output_full, that has returned
ParseReturned(c) == call[c].op = "parse" /\ Returned(c)
SearchOutputReturned(c) ==
    call[c].op = "_parse_search_output_full" /\ Returned(c)

\* C21: for an output that is empty or of whitespace only, parse returns
\* success = false, the shape raw and the error message "Empty output", and
\* has called neither detect_output_type nor an extractor.
C21_EmptyOutputIsRefusedBeforeClassification ==
    \A c \in Callers :
        (ParseReturned(c) /\ call[c].kind = "blank") =>
            LET f == call[c] IN
            /\ f.ran = <<>>
            /\ f.result.success = FALSE
            /\ f.result.output_type = "raw"
            /\ f.result.error_message = <<<<"E","m","p","t","y"," ","o","u",
                                            "t","p","u","t">>>>

\* parse has returned for an output of a blank, a tab and line ends
C21_Witness ==
    /\ ParseReturned(SoloCaller)
    /\ call[SoloCaller].kind = "blank"
    /\ call[SoloCaller].output = <<" ", "\t", "\n", " ">>
    /\ call[SoloCaller].ran = <<>>
    /\ call[SoloCaller].result.success = FALSE

\* the fields of a ParsedOutput
ParsedOutputFields ==
    {"output_type", "success", "data", "raw_output", "error_message",
     "metadata"}

\* C22: parse returns a ParsedOutput for every output, and its raw_output is
\* the output it was given; when no header of a table can be found, and
\* whenever it reports a failure with the shape raw, success is false, data
\* is the output itself and the error message is not empty.
C22_ParseAlwaysReturnsAParsedOutput ==
    \A c \in Callers :
        ParseReturned(c) =>
            LET f == call[c] IN
            /\ DOMAIN f.result = ParsedOutputFields
            /\ f.result.success \in BOOLEAN
            /\ f.result.raw_output = f.output
            /\ f.kind = "headerless" =>
                  /\ f.ran = <<"detect_output_type", "parse_table_output">>
                  /\ f.result.success = FALSE
                  /\ f.result.output_type = "raw"
            /\ (f.result.output_type = "raw" /\ ~ f.result.success
                /\ f.kind # "blank") =>
                  /\ f.result.data = f.output
                  /\ f.result.error_message # <<>>
                  /\ f.result.error_message # <<<<>>>>

\* parse has returned for a table of which no line can be a header
C22_Witness ==
    /\ ParseReturned(SoloCaller)
    /\ call[SoloCaller].kind = "headerless"
    /\ call[SoloCaller].output = <<"x"," ","y"," ","z","\n","=","=","=","=",
                                   "=","\n">>
    /\ call[SoloCaller].result.output_type = "raw"
    /\ call[SoloCaller].result.data = call[SoloCaller].output
    /\ call[SoloCaller].result.error_message
          = <<<<"C","o","u","l","d"," ","n","o","t"," ","d","e","t","e","c",
                "t"," ","t","a","b","l","e"," ","s","t","r","u","c","t","u",
                "r","e">>>>

\* the six fields of a record of a module search
ModuleRecordFields ==
    {"index", "name", "disclosure_date", "rank", "check", "description"}

\* C23: every record of a module search has the six fields index, name,
\* disclosure_date, rank, check and description: those of the table
\* extractor of parse, and those of _parse_search_output_full.
C23_ModuleRecordsCarryAllSixFields ==
    \A c \in Callers :
        /\ (/\ ParseReturned(c)
            /\ call[c].result.metadata # <<>>
            /\ "table_type" \in DOMAIN call[c].result.metadata[1]
            /\ call[c].result.metadata[1].table_type = "module_search") =>
              \A i \in 1..Len(call[c].result.data) :
                  ModuleRecordFields \subseteq DOMAIN call[c].result.data[i]
        /\ SearchOutputReturned(c) =>
              \A i \in 1..Len(call[c].result) :
                  ModuleRecordFields \subseteq DOMAIN call[c].result[i]

\* the text of the lines kept, joined with " | "
Joined(failures) == Join(failures, <<" ", "|", " ">>)

\* C25: when detect_output_type says error, parse returns success = false
\* and an error message that is not empty; when lines of failure text were
\* kept, it is those lines, without their "[-]", joined with " | ".
C25_ErrorMessageJoinsTheFailureLines ==
    \A c \in Callers :
        (/\ ParseReturned(c)
         /\ call[c].kind = "failure"
         /\ call[c].ran = <<"detect_output_type", "parse_error_output">>) =>
            LET f == call[c] IN
            /\ f.result.success = FALSE
            /\ f.failures # <<>> =>
                  f.result.error_message = <<Joined(f.failures)>>
            /\ f.result.error_message # <<>>
            /\ f.result.error_message # <<<<>>>>

\* C26: of a listing whose well-formed rows are numbered 1..N,
\* _parse_search_output_full returns N records, those of the well-formed
\* rows in their order, with the index fields 1..N.
C26_StrictPassReturnsTheWellFormedRows ==
    \A c \in Callers :
        SearchOutputReturned(c) =>
            LET f == call[c] IN
            /\ Len(f.result) = Len(f.rows)
            /\ \A i \in 1..Len(f.result) :
                  /\ f.result[i].index = i
                  /\ f.result[i].name = f.rows[i]

\* the length of a field of a record, 0 for a field it does not have
RECURSIVE FieldLengths(_, _)
FieldLengths(modules, key) ==
    IF modules = <<>> THEN 0
    ELSE (IF key \in DOMAIN Head(modules) THEN Len(Head(modules)[key]) ELSE 0)
         + FieldLengths(Tail(modules), key)

\* the characters of the names, descriptions and types of the records
RecordChars(modules) ==
    FieldLengths(modules, "name") + FieldLengths(modules, "description")
       + FieldLengths(modules, "type")

EstimateReturned(c) == call[c].op = "_estimate_response_tokens" /\ Returned(c)

\* C31 as stated: the estimate of a list that is not empty is the sum over
\* its records of len(name) + len(description) + len(type) + 90, plus 1800,
\* divided by 3 and rounded down.
C31_EstimateCountsNinetyPerRecord ==
    \A c \in Callers :
        (EstimateReturned(c) /\ call[c].modules # <<>>) =>
            call[c].result
               = (RecordChars(call[c].modules) + 90 * Len(call[c].modules)
                  + 1800) \div 3

\* C31, amended: the estimate of a list that is not empty is the sum over
\* its records of len(name) + len(description) + len(type) + 110, plus 1800,
\* divided by 3 and rounded down; a field a record does not have counts 0.
C31_EstimateCountsHundredAndTenPerRecord ==
    \A c \in Callers :
        (EstimateReturned(c) /\ call[c].modules # <<>>) =>
            call[c].result
               = (RecordChars(call[c].modules) + 110 * Len(call[c].modules)
                  + 1800) \div 3

\* the estimate of ModuleA, ModuleB and ModuleC is (14 + 330 + 1800) div 3
C31_Witness ==
    /\ EstimateReturned(SoloCaller)
    /\ call[SoloCaller].modules = <<ModuleA, ModuleB, ModuleC>>
    /\ call[SoloCaller].result = 714

\* the query "exploit platform:windows type:local"
BoundaryQuery ==
    <<"e","x","p","l","o","i","t"," ","p","l","a","t","f","o","r","m",":","w",
      "i","n","d","o","w","s"," ","t","y","p","e",":","l","o","c","a","l">>

BoundaryCall(c) ==
    /\ call[c].op = "get_adaptive_search_timeout" /\ Returned(c)
    /\ call[c].query = BoundaryQuery
    /\ call[c].limit = 150

\* C32 as stated: for "exploit platform:windows type:local" and the limit
\* 150 the complexity is 2.8 and the timeout is base + 42 s, 102 s.
C32_BoundaryTimeoutIsBasePlus42 ==
    \A c \in Callers :
        BoundaryCall(c) => call[c].result = ModuleSearchTimeout + 420

\* C32, amended: for "exploit platform:windows type:local" and the limit
\* 150 the complexity is 1 + 0.5 + 1 + 0.3 * 2 = 3.1, both ":" of the query
\* counted, and the timeout is base + 46.5 s = 106.5 s, over the base and
\* under the cap of 120 s.
C32_BoundaryTimeoutIsBasePlus46AndAHalf ==
    \A c \in Callers :
        BoundaryCall(c) =>
            /\ call[c].result = ModuleSearchTimeout + 465
            /\ call[c].result > ModuleSearchTimeout
            /\ call[c].result <= 1200

\* the call of the boundary query has returned, the query made of its three
\* terms
C32_Witness ==
    /\ BoundaryCall(SoloCaller)
    /\ Len(call[SoloCaller].terms) = 3
    /\ SumOver(call[SoloCaller].terms, "colons") = 2
    /\ call[SoloCaller].result = 1065

\* C39: a search that succeeds returns no module for a page that is not one
\* of 1..total_pages.
C39_NoModulesOutsideThePages ==
    \A c \in Callers :
        (/\ call[c].op = "search_modules" /\ Returned(c)
         /\ call[c].result.status = "success"
         /\ "pagination" \in DOMAIN call[c].result.data
         /\ call[c].page \notin
               1..call[c].result.data.pagination.total_pages) =>
            call[c].result.data.modules = <<>>

\* C36: no attempt of execute_command is started while session_active is
\* false: a step in which a call enters the process runner, which creates
\* the child process of the attempt, is taken with session_active true.
C36_NoAttemptWhileInactive ==
    [][\A c \in Callers :
          (/\ call'[c].op \in {"execute_command", "search_modules"}
           /\ call'[c].runs > call[c].runs) =>
             session_active]_vars

\* C37: an attempt that raised an error other than a timeout is the last of
\* its call: the call has returned Failure "Execution error", with one
\* failure and no success counted, no attempt and no sleep after the one
\* that raised, and no child left.
C37_OtherErrorEndsTheCallAtOnce ==
    \A c \in Callers : InExecute(c) =>
        LET f == call[c] IN
        \A i \in 1..Len(f.trace) :
            f.trace[i] = "error" =>
               /\ i = Len(f.trace)
               /\ f.pc = "returned"
               /\ f.result.status = "failure"
               /\ f.result.error = "Execution error"
               /\ f.counted = [ops |-> 1, succ |-> 0, fail |-> 1]
               /\ f.runs = i /\ f.sleeps = i - 1
               /\ f.kids = 0

\* the second attempt raised, after a first that timed out
C37_Witness ==
    /\ call[SoloCaller].op = "execute_command"
    /\ Returned(SoloCaller)
    /\ call[SoloCaller].trace = <<"timeout", "error">>
    /\ call[SoloCaller].result.status = "failure"
    /\ call[SoloCaller].sleeps = 1

\* the limiter of caller c
Limiter(c) == call[c]

IsLimiter(c) == call[c].op = "RateLimiter"

\* C35: of the calls that allow() admitted, at most max_calls lie within
\* window_secs of one another (the readings of the clock never go back, so
\* these are runs of the history), and the calls the limiter has recorded are
\* the last of the admitted ones: a refused call is not among them.
C35_AtMostMaxCallsWithinAWindow ==
    \A c \in Callers : IsLimiter(c) =>
        LET f == Limiter(c)
            n == Len(f.admitted)
        IN  /\ \A i, j \in 1..n :
                  (i <= j /\ f.admitted[j] - f.admitted[i] <= f.window_secs)
                      => j - i + 1 <= f.max_calls
            /\ Len(f.calls) <= n
            /\ f.calls = SubSeq(f.admitted, n - Len(f.calls) + 1, n)

\* a call was refused with the window full, and a later one, made after the
\* recorded calls had left the window, was admitted
C35_Witness ==
    /\ IsLimiter(SoloCaller)
    /\ Limiter(SoloCaller).max_calls = 2
    /\ Limiter(SoloCaller).window_secs = 2
    /\ Limiter(SoloCaller).refused
    /\ Limiter(SoloCaller).admitted = <<0, 2, 5>>
    /\ Limiter(SoloCaller).result

(***************************************************************************)
(* The MCP server: execute_msf_command and ensure_initialized of           *)
(* src/msf/server.py, and of src/msfconsole_mcp_enhanced.py, which has no  *)
(* fallback policy.  The server's globals and the tool calls in flight are *)
(* the frame of the process that runs the server; a step of a tool call is *)
(* the code between two awaits that wait on Metasploit.  The security      *)
(* manager, the initializer and the dual-mode handler are outside these    *)
(* sources: what they answer is an input of the step.                      *)
(***************************************************************************)
\* tool calls the server runs at a time
Requests == {"r1", "r2"}
Variants == {"msf/server.py", "msfconsole_mcp_enhanced.py"}

\* DEFAULT_ALLOWLIST of security_utils.py
DefaultAllowlist ==
    { <<"h","e","l","p">>,
      <<"v","e","r","s","i","o","n">>,
      <<"w","o","r","k","s","p","a","c","e">>,
      <<"s","e","a","r","c","h">>,
      <<"s","h","o","w">>,
      <<"i","n","f","o">>,
      <<"u","s","e">>,
      <<"s","e","t">>,
      <<"u","n","s","e","t">>,
      <<"c","h","e","c","k">>,
      <<"r","u","n">>,
      <<"e","x","p","l","o","i","t">>,
      <<"b","a","c","k">>,
      <<"r","e","l","o","a","d","_","a","l","l">>,
      <<"s","e","s","s","i","o","n","s">>,
      <<"j","o","b","s">>,
      <<"r","o","u","t","e">>,
      <<"p","o","r","t","f","w","d">>,
      <<"l","o","a","d">>,
      <<"u","n","l","o","a","d">>,
      <<"c","r","e","d","s">>,
      <<"l","o","o","t">>,
      <<"n","o","t","e","s">>,
      <<"h","o","s","t","s">>,
      <<"s","e","r","v","i","c","e","s">>,
      <<"v","u","l","n","s">>,
      <<"d","b","_">> }

\* DEFAULT_DENY of policy.py
DefaultDeny ==
    { <<"r","m"," ">>,
      <<"m","k","f","s">>,
      <<"d","d"," ","i","f","=">>,
      <<":","(",")","{"," ",":","|",":","&"," ","}",";",":">> }

\* is_command_allowed(command) with the default allowlist
IsCommandAllowed(command) ==
    LET cmd == Lower(Strip(command)) IN
    \E prefix \in DefaultAllowlist : StartsWith(cmd, prefix)

\* is_denied(command)
IsDenied(command) ==
    LET cmd == Lower(Strip(command)) IN
    \E bad \in DefaultDeny : Contains(cmd, bad)

\* command.replace("\x00", "").replace("\r", "").strip(), cut to 1000
\* characters; "NUL" stands for the character \x00
Sanitized(command) ==
    LET kept == Strip(SelectSeq(command, LAMBDA ch : ch \notin {"NUL", "\r"}))
    IN  IF Len(kept) > 1000 THEN SubSeq(kept, 1, 1000) ELSE kept

\* the commands the clients send
ServerCommands ==
    { <<"v","e","r","s","i","o","n">>,
      <<" ","R","u","n","\r">>,
      <<"r","u","n",";"," ","r","m"," ","-","r","f"," ","/">>,
      <<"n","m","a","p">> }

IdleRequest == [pc |-> "idle", checked |-> "none", response |-> "none"]

\* return <response> from the tool call r
Respond(s, r, response) ==
    [s EXCEPT !.requests[r].pc = "returned",
              !.requests[r].response = response]

\* result = await dual_mode_handler.execute_command(command, context): the
\* handler is the one the global names now; dispatched records which check
\* the command had passed and where initialize() of that handler was
Dispatch(s, r) ==
    [s EXCEPT !.requests[r].pc = "execute_command",
              !.dispatched = @ \cup
                 {[checked |-> s.requests[r].checked,
                   handler |-> s.initialize[s.dual_mode_handler[1]]]}]

\* await asyncio.wait_for(ensure_initialized(), timeout=60) up to its first
\* await, and the dispatch when ensure_initialized has nothing to do
EnsureInitialized(s, r, checked) ==
    LET t == [s EXCEPT !.requests[r].checked = checked] IN
    IF s.dual_mode_handler = <<>>
    THEN [t EXCEPT !.requests[r].pc = "get_initializer"]
    ELSE Dispatch(t, r)

\* the fallback policy of msf/server.py (lines 225-255) at the reading <now>
\* of the clock; the server's limiter keeps no history of its answers
FallbackPolicy(s, r, command, now) ==
    LET cmd == Sanitized(command)
        allowed == Allow(s.rate_limiter, now)
        limiter == [allowed EXCEPT !.admitted = <<>>, !.refused = FALSE,
                                   !.result = FALSE]
    IN  IF ~ IsCommandAllowed(cmd)
        THEN Respond(s, r, "Command not allowed by fallback policy")
        ELSE IF IsDenied(cmd)
        THEN Respond(s, r, "Command denied by policy")
        ELSE IF ~ allowed.result
        THEN Respond([s EXCEPT !.rate_limiter = limiter], r,
                     "Rate limit exceeded")
        ELSE EnsureInitialized([s EXCEPT !.rate_limiter = limiter], r,
                               "fallback")

\* the module is loaded: no handler, no security manager, and the limiter of
\* msf/server.py lines 102-105; initialize[r] tells where initialize() of
\* the handler that the tool call r created is: "none" of it, "pending",
\* "True", or "failed" (False, an exception or a timeout)
ServerStart(c) ==
    /\ call[c].pc = "idle"
    /\ \E variant \in Variants :
          call' = [call EXCEPT ![c] =
             [op |-> "server", pc |-> "serving", variant |-> variant,
              dual_mode_handler |-> <<>>,
              initialize |-> [r \in Requests |-> "none"],
              security_manager |-> FALSE,
              rate_limiter |->
                 [max_calls |-> MaxCalls, window_secs |-> MaxWindow,
                  calls |-> <<>>, clock |-> 0, admitted |-> <<>>,
                  refused |-> FALSE, result |-> FALSE],
              requests |-> [r \in Requests |-> IdleRequest],
              dispatched |-> {}]]
    /\ UNCHANGED <<session_active, initialization_status, performance_stats>>

Serving(c) == call[c].op = "server"

\* a client calls the tool execute_msf_command(command); <valid> is the
\* answer of the security manager and <tick> the time since the limiter
\* last read the clock
ExecuteMsfCommand(c, r) ==
    /\ Serving(c) /\ call[c].requests[r].pc = "idle"
    /\ \E command \in ServerCommands, valid \in BOOLEAN, tick \in 0..MaxTick :
          LET s == call[c]
              now == s.rate_limiter.clock + tick
          IN  /\ now <= MaxClock
              /\ call' = [call EXCEPT ![c] =
                    IF s.security_manager
                    THEN IF ~ valid
                         THEN Respond(s, r,
                                 "Command blocked by security validation")
                         ELSE EnsureInitialized(s, r, "manager")
                    ELSE IF s.variant = "msf/server.py"
                         THEN FallbackPolicy(s, r, command, now)
                         ELSE EnsureInitialized(s, r, "none")]
    /\ UNCHANGED <<session_active, initialization_status, performance_stats>>

\* ensure_initialized when get_initializer() has ended: it raised or timed
\* out, or the security manager and the handler are created and
\* initialize() is awaited
GetInitializerDone(c, r) ==
    /\ Serving(c) /\ call[c].requests[r].pc = "get_initializer"
    /\ \E ok \in BOOLEAN, imported \in BOOLEAN :
          call' = [call EXCEPT ![c] =
             IF ~ ok
             THEN Respond(call[c], r, "Failed to initialize")
             ELSE [call[c] EXCEPT !.security_manager = imported,
                                  !.dual_mode_handler = <<r>>,
                                  !.initialize[r] = "pending",
                                  !.requests[r].pc = "initialize"]]
    /\ UNCHANGED <<session_active, initialization_status, performance_stats>>

\* ensure_initialized when initialize() of the handler this call created
\* has ended: "True", "False", "raised" (an exception or the timeout of
\* 45 s), or "cancelled" by the timeout of 60 s of execute_msf_command
InitializeDone(c, r) ==
    /\ Serving(c) /\ call[c].requests[r].pc = "initialize"
    /\ \E init_result \in {"True", "False", "raised", "cancelled"} :
          call' = [call EXCEPT ![c] =
             CASE init_result = "True" ->
                    Dispatch([call[c] EXCEPT !.initialize[r] = "True"], r)
               [] init_result = "cancelled" ->
                    Respond([call[c] EXCEPT !.initialize[r] = "failed"], r,
                            "Metasploit initialization timeout")
               [] OTHER ->
                    Respond([call[c] EXCEPT !.initialize[r] = "failed"], r,
                            "Failed to initialize")]
    /\ UNCHANGED <<session_active, initialization_status, performance_stats>>

\* the handler's execute_command has ended and the tool call returns
ExecuteCommandDone(c, r) ==
    /\ Serving(c) /\ call[c].requests[r].pc = "execute_command"
    /\ call' = [call EXCEPT ![c] = Respond(call[c], r, "executed")]
    /\ UNCHANGED <<session_active, initialization_status, performance_stats>>

\* the client has its answer
RequestDone(c, r) ==
    /\ Serving(c) /\ call[c].requests[r].pc = "returned"
    /\ call' = [call EXCEPT ![c].requests[r] = IdleRequest]
    /\ UNCHANGED <<session_active, initialization_status, performance_stats>>

ServerNext ==
    \/ ServerStart(SoloCaller)
    \/ \E r \in Requests :
          \/ ExecuteMsfCommand(SoloCaller, r)
          \/ GetInitializerDone(SoloCaller, r)
          \/ InitializeDone(SoloCaller, r)
          \/ ExecuteCommandDone(SoloCaller, r)
          \/ RequestDone(SoloCaller, r)

ServerSpec == Init /\ [][ServerNext]_vars

\* C33: no command is dispatched to a handler whose initialize() has failed
\* or timed out: a request that comes after the failure initializes again.
C33_NoDispatchToAHandlerThatFailedToInitialize ==
    \A c \in Callers : Serving(c) =>
        \A d \in call[c].dispatched : d.handler # "failed"

\* C34: whenever a command is dispatched, it has passed the security
\* manager's validation or the fallback policy.
C34_DispatchedOnlyAfterAPolicyCheck ==
    \A c \in Callers : Serving(c) =>
        \A d \in call[c].dispatched : d.checked \in {"manager", "fallback"}

(***************************************************************************)
(* MSFExtendedTools.msf_module_manager (src/msf/tools_extended.py lines    *)
(* 68-207).  The tools object and the manager calls in flight are the      *)
(* frame of the process that owns the object; a step of a manager call is  *)
(* the code between two awaits of execute_command, whose status is an      *)
(* input of the step.  The helpers that read stdout after a success are    *)
(* not in these sources: they return or they raise.                        *)
(***************************************************************************)
\* the most options a "set" action is given
MaxOptions == 2

\* the values of ModuleAction
ModuleActions ==
    { <<"u","s","e">>,
      <<"i","n","f","o">>,
      <<"o","p","t","i","o","n","s">>,
      <<"s","e","t">>,
      <<"u","n","s","e","t">>,
      <<"c","h","e","c","k">>,
      <<"r","u","n">>,
      <<"e","x","p","l","o","i","t">>,
      <<"b","a","c","k">>,
      <<"r","e","l","o","a","d","_","a","l","l">> }

\* the action strings the callers give
ActionsGiven ==
    { <<"u","s","e">>,
      <<"i","n","f","o">>,
      <<"o","p","t","i","o","n","s">>,
      <<"s","e","t">>,
      <<"u","n","s","e","t">>,
      <<"c","h","e","c","k">>,
      <<"r","u","n">>,
      <<"e","x","p","l","o","i","t">>,
      <<"b","a","c","k">>,
      <<"r","e","l","o","a","d","_","a","l","l">>,
      <<"R","U","N">>,
      <<"s","c","a","n">> }

\* module_path: None, "", or a path
ModulePathsGiven == { <<>>, << <<>> >>, << <<"a">> >>, << <<"b">> >> }

\* the statuses execute_command returns
ExecuteStatuses == {"success", "failure", "timeout"}

IdleManagerCall ==
    [pc |-> "idle", action |-> <<>>, module_path |-> <<>>, options |-> 0,
     errors |-> 0, executed |-> 0, status |-> "none"]

\* return ExtendedOperationResult(status=<status>, ...) from the call r
ManagerReturn(s, r, status) ==
    [s EXCEPT !.calls[r].pc = "returned", !.calls[r].status = status]

\* result = await self.execute_command(...)
ManagerExecute(s, r) ==
    [s EXCEPT !.calls[r].pc = "execute_command", !.calls[r].executed = @ + 1]

\* msf_module_manager(action, module_path, options) up to its first await
\* (lines 83-188); an "unset" action reaches line 194 with no result bound
\* and the except of line 200 answers Failure; the frame keeps what the
\* call reads after its first await: module_path of "use", options of "set"
ManagerStart(s, r, action, module_path, options) ==
    LET module_action == Lower(action)
        t == [s EXCEPT !.calls[r].action = module_action,
                       !.calls[r].module_path =
                          IF module_action = <<"u","s","e">>
                          THEN module_path ELSE <<>>,
                       !.calls[r].options =
                          IF module_action = <<"s","e","t">>
                          THEN options ELSE 0]
    IN  CASE module_action \notin ModuleActions ->
               ManagerReturn(t, r, "failure")
          [] module_action = <<"u","s","e">> ->
               IF module_path = <<>> \/ module_path[1] = <<>>
               THEN ManagerReturn(t, r, "failure")
               ELSE ManagerExecute(t, r)
          [] module_action = <<"s","e","t">> ->
               IF options = 0
               THEN ManagerReturn(t, r, "failure")
               ELSE ManagerExecute(t, r)
          [] module_action \in {<<"r","u","n">>, <<"e","x","p","l","o","i","t">>} ->
               IF s.module_context = <<>>
               THEN ManagerReturn(t, r, "failure")
               ELSE ManagerExecute(t, r)
          [] module_action = <<"u","n","s","e","t">> ->
               ManagerReturn(t, r, "failure")
          [] OTHER -> ManagerExecute(t, r)

\* a variant of lines 102-110 and 178-186 that loads the module whatever the
\* status of "use" is
ManagerResumeAlwaysLoads(s, r, status, parsed) ==
    LET f == s.calls[r] IN
    CASE f.action = <<"u","s","e">> ->
           ManagerReturn([s EXCEPT !.module_context = f.module_path], r,
                         status)
      [] f.action = <<"b","a","c","k">> ->
           IF status = "success"
           THEN ManagerReturn([s EXCEPT !.module_context = <<>>], r,
                              "success")
           ELSE ManagerReturn(s, r, status)
      [] OTHER -> ManagerReturn(s, r, status)

\* msf_module_manager from the return of execute_command with <status> on;
\* <parsed> tells that the helper that reads stdout returned
ManagerResume(s, r, status, parsed) ==
    LET f == s.calls[r] IN
    CASE f.action = <<"u","s","e">> ->
           IF status = "success"
           THEN ManagerReturn([s EXCEPT !.module_context = f.module_path], r,
                              "success")
           ELSE ManagerReturn(s, r, status)
      [] f.action = <<"b","a","c","k">> ->
           IF status = "success"
           THEN ManagerReturn([s EXCEPT !.module_context = <<>>], r,
                              "success")
           ELSE ManagerReturn(s, r, status)
      [] f.action = <<"s","e","t">> ->
           LET errors == IF status = "success" THEN f.errors
                         ELSE f.errors + 1
               t == [s EXCEPT !.calls[r].errors = errors,
                              !.calls[r].options = @ - 1]
           IN  IF f.options > 1 THEN ManagerExecute(t, r)
               ELSE ManagerReturn(t, r, IF errors = 0 THEN "success"
                                        ELSE "partial")
      [] f.action = <<"r","e","l","o","a","d","_","a","l","l">> -> ManagerReturn(s, r, status)
      [] OTHER ->
           IF status = "success" /\ ~ parsed
           THEN ManagerReturn(s, r, "failure")
           ELSE ManagerReturn(s, r, status)

\* MSFExtendedTools(), lines 71-74
ExtendedToolsNew(c) ==
    /\ call[c].pc = "idle"
    /\ call' = [call EXCEPT ![c] =
          [op |-> "MSFExtendedTools", pc |-> "constructed",
           module_context |-> <<>>,
           calls |-> [r \in Requests |-> IdleManagerCall]]]
    /\ UNCHANGED <<session_active, initialization_status, performance_stats>>

Managing(c) == call[c].op = "MSFExtendedTools"

\* a caller calls msf_module_manager(action, module_path, options)
MsfModuleManager(c, r) ==
    /\ Managing(c) /\ call[c].calls[r].pc = "idle"
    /\ \E action \in ActionsGiven, module_path \in ModulePathsGiven,
          options \in 0..MaxOptions :
          call' = [call EXCEPT ![c] =
                      ManagerStart(call[c], r, action, module_path, options)]
    /\ UNCHANGED <<session_active, initialization_status, performance_stats>>

\* the execute_command that the manager call r awaits returns
ManagerExecuted(c, r) ==
    /\ Managing(c) /\ call[c].calls[r].pc = "execute_command"
    /\ \E status \in ExecuteStatuses, parsed \in BOOLEAN :
          call' = [call EXCEPT ![c] = ManagerResume(call[c], r, status, parsed)]
    /\ UNCHANGED <<session_active, initialization_status, performance_stats>>

\* the caller has its result
ManagerDone(c, r) ==
    /\ Managing(c) /\ call[c].calls[r].pc = "returned"
    /\ call' = [call EXCEPT ![c].calls[r] = IdleManagerCall]
    /\ UNCHANGED <<session_active, initialization_status, performance_stats>>

ManagerNext ==
    \/ ExtendedToolsNew(SoloCaller)
    \/ \E r \in Requests :
          \/ MsfModuleManager(SoloCaller, r)
          \/ ManagerExecuted(SoloCaller, r)
          \/ ManagerDone(SoloCaller, r)

ManagerSpec == Init /\ [][ManagerNext]_vars

\* the manager call r of the frame after the step has just returned <status>
\* for <action>, having awaited execute_command in the frame s before it
JustReturned(s, t, r, action, status) ==
    /\ s.calls[r].pc = "execute_command"
    /\ t.calls[r].pc = "returned"
    /\ t.calls[r].action = action
    /\ t.calls[r].status = status

\* C38: a run or exploit action that starts with no module loaded returns
\* Failure in that step with no command executed; and the loaded-module
\* context changes only in a step in which a use action returns Success,
\* to the path of that action, or a back action returns Success, to none.
C38_ContextFollowsUseAndBack ==
    [][\A c \in Callers :
          (Managing(c) /\ call'[c].op = "MSFExtendedTools") =>
             LET s == call[c]
                 t == call'[c]
             IN  /\ \A r \in Requests :
                       (/\ s.calls[r].pc = "idle" /\ t.calls[r].pc # "idle"
                        /\ t.calls[r].action \in {<<"r","u","n">>, <<"e","x","p","l","o","i","t">>}
                        /\ s.module_context = <<>>)
                       => /\ t.calls[r].pc = "returned"
                          /\ t.calls[r].status = "failure"
                          /\ t.calls[r].executed = 0
                 /\ t.module_context # s.module_context =>
                       \E r \in Requests :
                          \/ /\ JustReturned(s, t, r, <<"u","s","e">>, "success")
                             /\ t.module_context = t.calls[r].module_path
                             /\ t.module_context \notin {<<>>, << <<>> >>}
                          \/ /\ JustReturned(s, t, r, <<"b","a","c","k">>, "success")
                             /\ t.module_context = <<>>]_vars

\* a use action has returned Success and loaded the module "a", and a run
\* action that started after it is executing its command
C38_Witness ==
    /\ Managing(SoloCaller)
    /\ call[SoloCaller].module_context = << <<"a">> >>
    /\ \E r, q \in Requests :
          /\ call[SoloCaller].calls[r].pc = "returned"
          /\ call[SoloCaller].calls[r].action = <<"u","s","e">>
          /\ call[SoloCaller].calls[r].status = "success"
          /\ call[SoloCaller].calls[q].pc = "execute_command"
          /\ call[SoloCaller].calls[q].action = <<"r","u","n">>
          /\ call[SoloCaller].calls[q].executed = 1

=============================================================================
